---- MODULE Spec2Model ----
(***************************************************************************)
(* Name resolution of vhdl_lang/src/analysis/semantic.rs.                  *)
(*                                                                         *)
(* The symbol graph (NamedEntity, Region) is read-only data; the state is  *)
(* the reference slots of the syntax node under analysis, the diagnostic   *)
(* sink, the value returned by the last call and the weak forward link of  *)
(* the incomplete type.  Every function of the source is an operator that  *)
(* threads the pair (reference slots, diagnostics) through its calls in    *)
(* the order the source makes them.                                        *)
(***************************************************************************)
EXTENDS Integers, Sequences, FiniteSets, TLC

\* ------------------------------------------------------------- bounds
\* Number of Subtype/AccessType wrapper entities stacked above wrapTarget.
MaxWrap == 2
\* Longest selected-name chain d0.d1...dn handed to the resolvers (n+1).
MaxChain == 3
\* Number of concurrent resolvers racing with the link write.
MaxReaders == 2
\* Number of branches of a conditional, and of alternatives of a selected, assignment.
MaxBranches == 2
\* Parts of one statement written otherwise than as the plain name rec.val
\* (an accepted target, an unaffected waveform).
MaxFaults == 2

VARIABLES
  wrapKind,    \* kind of each wrapper type entity, fixed by the declaration pass
  wrapTarget,  \* the type entity below the wrappers
  link,        \* IncompleteType's weak link: FALSE unresolved, TRUE resolved
  call,        \* the last analysis pass: its root region and the link it saw
  node,        \* the syntax node under analysis
  refs,        \* reference slots of the syntax tree (slot id -> NamedEntities)
  diagnostics, \* what the last call pushed to its sink
  ret,         \* what the last call returned
  before,      \* reference slots as they were when the last call started
  prev,        \* outcome of the call before the last one
  obs,         \* per reader: outcomes of its lookups against the incomplete type
  stack        \* prefix types of the active calls of lookup_type_selected

vars == <<wrapKind, wrapTarget, link, call, node, refs, diagnostics, ret,
          before, prev, obs, stack>>

\* ------------------------------------------------------- result values
NoneVal == [k |-> "None", des |-> "", ents |-> {}]
Single(e) == [k |-> "Single", des |-> e, ents |-> {e}]
Overloaded(d, es) == [k |-> "Overloaded", des |-> d, ents |-> es]

NoPos == <<0, 0, 0>>
NoDiag == [pos |-> NoPos, msg |-> <<>>, related |-> {}]
Diagnostic_error(pos, msg) == [pos |-> pos, msg |-> msg, related |-> {}]
\* Diagnostic::add_related(decl_pos, "Defined here"), the declaration named by its entity
add_related(diag, ent) == [diag EXCEPT !.related = @ \cup {ent}]

Ok(v) == [tag |-> "Ok", val |-> v, diag |-> NoDiag, err |-> ""]
NotFatal(d) == [tag |-> "NotFatal", val |-> NoneVal, diag |-> d, err |-> ""]
Fatal(e) == [tag |-> "Fatal", val |-> NoneVal, diag |-> NoDiag, err |-> e]

\* NamedEntities::into_non_overloaded
into_non_overloaded(v) ==
  IF v.k = "Single" THEN [ok |-> TRUE, ent |-> CHOOSE e \in v.ents : TRUE]
  ELSE [ok |-> FALSE, ent |-> ""]

\* -------------------------------------------------------- symbol model
WrapNames == <<"w1", "w2", "w3", "w4">>
Wrappers == {WrapNames[i] : i \in 1..MaxWrap}
WrapIndex(e) == CHOOSE i \in 1..MaxWrap : WrapNames[i] = e
WrapKinds == {"Subtype", "AccessType"}
WrapTargets == {"rec_t", "prot_t", "ali_t", "integer", "node_t"}

KindTable ==
  [work |-> "Library", pkg |-> "Package", upkg |-> "UninstPackage",
   inst |-> "PackageInstance", linst |-> "LocalPackageInstance",
   CONST |-> "Object", rec |-> "Object",
   rec_t |-> "RecordType", next |-> "ElementDeclaration",
   val |-> "ElementDeclaration", ptr_t |-> "AccessType",
   node_t |-> "IncompleteType", prot_t |-> "ProtectedType",
   shared_v |-> "Object", count |-> "Object", ali |-> "OtherAlias",
   ali_t |-> "OtherAlias", ali_sub |-> "Subtype", oali |-> "Object",
   wobj |-> "Object", integer |-> "IntegerType",
   loop_t |-> "IncompleteType", loop_full |-> "AccessType", loop_v |-> "Object"]

\* NamedEntity::actual_kind
actual_kind(e) ==
  IF e \in Wrappers THEN wrapKind[WrapIndex(e)]
  ELSE IF e \in DOMAIN KindTable THEN KindTable[e]
  ELSE "Subprogram"

TopType == IF MaxWrap >= 1 THEN WrapNames[1] ELSE wrapTarget

BaseTable ==
  [CONST |-> "integer", rec |-> "rec_t", next |-> "ptr_t", val |-> "integer",
   ptr_t |-> "node_t", shared_v |-> "prot_t", count |-> "integer",
   ali_sub |-> "ali_t", oali |-> "ali_sub",
   loop_full |-> "loop_t", loop_v |-> "loop_t"]

\* Subtype::base of an object, an element declaration, a subtype or an access type
base(e) ==
  IF e = "wobj" THEN TopType
  ELSE IF e \in Wrappers
       THEN (IF WrapIndex(e) < MaxWrap THEN WrapNames[WrapIndex(e) + 1] ELSE wrapTarget)
  ELSE BaseTable[e]

\* The full type the incomplete type node_t is linked to once it is declared.
FullType == "rec_t"

\* type loop_t; type loop_t is access loop_t;  the full type of the incomplete
\* type loop_t is an access type that designates loop_t.
FullTypes == [node_t |-> FullType, loop_t |-> "loop_full"]

\* full_type_ref.load().upgrade()
load_upgrade(e) == IF link THEN [some |-> TRUE, ent |-> FullTypes[e]]
                   ELSE [some |-> FALSE, ent |-> ""]

KindWord ==
  [Library |-> "library", Package |-> "package", UninstPackage |-> "uninstantiated package",
   PackageInstance |-> "package instance", LocalPackageInstance |-> "package instance",
   Object |-> "object",
   RecordType |-> "record type", ElementDeclaration |-> "element declaration",
   AccessType |-> "access type", IncompleteType |-> "type",
   ProtectedType |-> "protected type", OtherAlias |-> "alias", Subtype |-> "subtype",
   IntegerType |-> "integer type", Subprogram |-> "subprogram"]

\* NamedEntity::describe
describe(e) == <<KindWord[actual_kind(e)], e>>

CapWord ==
  [library |-> "Library", package |-> "Package",
   object |-> "Object", type |-> "Type", alias |-> "Alias", subtype |-> "Subtype",
   subprogram |-> "Subprogram"]

\* capitalize: upper-cases the first letter of the text
capitalize(text) ==
  IF text[1] \in DOMAIN CapWord THEN <<CapWord[text[1]]>> \o Tail(text)
  ELSE IF text[1] = "uninstantiated package" THEN <<"Uninstantiated package">> \o Tail(text)
  ELSE IF text[1] = "package instance" THEN <<"Package instance">> \o Tail(text)
  ELSE IF text[1] = "record type" THEN <<"Record type">> \o Tail(text)
  ELSE IF text[1] = "element declaration" THEN <<"Element declaration">> \o Tail(text)
  ELSE IF text[1] = "access type" THEN <<"Access type">> \o Tail(text)
  ELSE IF text[1] = "protected type" THEN <<"Protected type">> \o Tail(text)
  ELSE IF text[1] = "integer type" THEN <<"Integer type">> \o Tail(text)
  ELSE text

\* Member scopes and the two root regions (the root region of the pass before
\* and after an edit of the declarations).
Members ==
  [pkg    |-> [CONST |-> Single("CONST"), rec |-> Single("rec"),
               func |-> Overloaded("func", {"func#1", "func#2"}),
               rec_t |-> Single("rec_t")],
   inst   |-> [CONST |-> Single("CONST")],
   linst  |-> [CONST |-> Single("CONST")],
   rec_t  |-> [next |-> Single("next"), val |-> Single("val")],
   prot_t |-> [count |-> Single("count"),
               get |-> Overloaded("get", {"get#1", "get#2"})],
   root1  |-> [work |-> Single("work"), lib |-> Single("work"), pkg |-> Single("pkg"), upkg |-> Single("upkg"),
               rec |-> Single("rec"), CONST |-> Single("CONST"),
               func |-> Overloaded("func", {"func#1", "func#2"}),
               ali |-> Single("ali"), oali |-> Single("oali"),
               wobj |-> Single("wobj"), shared_v |-> Single("shared_v"),
               rec_t |-> Single("rec_t"), integer |-> Single("integer")],
   root2  |-> [work |-> Single("work"), lib |-> Single("pkg"), pkg |-> Single("pkg"),
               rec |-> Single("shared_v"), func |-> Single("func#1"),
               oali |-> Single("rec"), wobj |-> Single("wobj"),
               integer |-> Single("integer")]]

\* Region::lookup_selected
Region_lookup_selected(region, des) ==
  IF des \in DOMAIN Members[region] THEN Members[region][des] ELSE NoneVal

\* Region::lookup_within
lookup_within(region, pos, des) ==
  IF des \in DOMAIN Members[region] THEN Ok(Members[region][des])
  ELSE NotFatal(Diagnostic_error(pos, <<"No declaration of", des>>))

LibraryUnits == [work |-> {"pkg", "upkg", "inst"}]
\* A primary unit whose analysis fails with a circular dependency.
CircularUnit == "cyc"

\* AnalyzeContext::lookup_in_library
lookup_in_library(library_name, pos, des) ==
  IF des \in LibraryUnits[library_name] THEN Ok(des)
  ELSE IF des = CircularUnit THEN Fatal("circular dependency")
  ELSE NotFatal(Diagnostic_error(pos, <<"No primary unit within library", des, library_name>>))

\* ---------------------------------------------------- error constructors
invalid_selected_name_prefix(named_entity, prefix) ==
  Diagnostic_error(prefix,
    capitalize(describe(named_entity) \o <<"may not be the prefix of a selected name">>))

\* Mutation: the entity and the suffix swapped in the message.
no_declaration_within_swapped(named_entity, suffix) ==
  Diagnostic_error(suffix.pos,
    <<"No declaration of">> \o describe(named_entity) \o <<"within", suffix.des>>)

no_declaration_within(named_entity, suffix) ==
  Diagnostic_error(suffix.pos,
    <<"No declaration of", suffix.des, "within">> \o describe(named_entity))

\* ------------------------------------------- type/kind-directed lookup
RECURSIVE lookup_type_selected(_, _, _)

\* Mutation: an access type is not looked through.
lookup_type_selected_opaque_access(prefix_pos, prefix_type, suffix) ==
  LET kind == actual_kind(prefix_type) IN
  CASE kind \in {"RecordType", "ProtectedType"} ->
         LET decl == Region_lookup_selected(prefix_type, suffix.des) IN
         IF decl.k # "None" THEN Ok(decl)
         ELSE NotFatal(no_declaration_within(prefix_type, suffix))
    [] kind = "OtherAlias" -> Ok(NoneVal)
    [] kind = "IncompleteType" ->
         LET full_type == load_upgrade(prefix_type) IN
         IF full_type.some THEN lookup_type_selected(prefix_pos, full_type.ent, suffix)
         ELSE Ok(NoneVal)
    [] kind = "Subtype" -> lookup_type_selected(prefix_pos, base(prefix_type), suffix)
    [] OTHER -> NotFatal(invalid_selected_name_prefix(prefix_type, prefix_pos))

\* Mutation: an incomplete type that is not linked yet is an invalid prefix.
lookup_type_selected_unlinked_error(prefix_pos, prefix_type, suffix) ==
  LET kind == actual_kind(prefix_type) IN
  CASE kind \in {"RecordType", "ProtectedType"} ->
         LET decl == Region_lookup_selected(prefix_type, suffix.des) IN
         IF decl.k # "None" THEN Ok(decl)
         ELSE NotFatal(no_declaration_within(prefix_type, suffix))
    [] kind = "OtherAlias" -> Ok(NoneVal)
    [] kind = "IncompleteType" ->
         LET full_type == load_upgrade(prefix_type) IN
         IF full_type.some THEN lookup_type_selected(prefix_pos, full_type.ent, suffix)
         ELSE NotFatal(invalid_selected_name_prefix(prefix_type, prefix_pos))
    [] kind \in {"Subtype", "AccessType"} ->
         lookup_type_selected(prefix_pos, base(prefix_type), suffix)
    [] OTHER -> NotFatal(invalid_selected_name_prefix(prefix_type, prefix_pos))

lookup_type_selected(prefix_pos, prefix_type, suffix) ==
  LET kind == actual_kind(prefix_type) IN
  CASE kind \in {"RecordType", "ProtectedType"} ->
         LET decl == Region_lookup_selected(prefix_type, suffix.des) IN
         IF decl.k # "None" THEN Ok(decl)
         ELSE NotFatal(no_declaration_within(prefix_type, suffix))
    [] kind = "OtherAlias" -> Ok(NoneVal)
    [] kind = "IncompleteType" ->
         LET full_type == load_upgrade(prefix_type) IN
         IF full_type.some THEN lookup_type_selected(prefix_pos, full_type.ent, suffix)
         ELSE Ok(NoneVal)
    [] kind \in {"Subtype", "AccessType"} ->
         lookup_type_selected(prefix_pos, base(prefix_type), suffix)
    [] OTHER -> NotFatal(invalid_selected_name_prefix(prefix_type, prefix_pos))

\* Mutation: a suffix that a package does not declare is indeterminate.
lookup_selected_lenient_package(prefix_pos, prefix, suffix) ==
  LET kind == actual_kind(prefix) IN
  CASE kind = "Library" ->
         LET named_entity == lookup_in_library(prefix, suffix.pos, suffix.des) IN
         IF named_entity.tag # "Ok" THEN named_entity
         ELSE Ok(Single(named_entity.val))
    [] kind = "UninstPackage" -> NotFatal(invalid_selected_name_prefix(prefix, prefix_pos))
    [] kind \in {"Object", "ElementDeclaration"} ->
         lookup_type_selected(prefix_pos, base(prefix), suffix)
    [] kind \in {"Package", "PackageInstance", "LocalPackageInstance"} ->
         Ok(Region_lookup_selected(prefix, suffix.des))
    [] kind = "OtherAlias" -> Ok(NoneVal)
    [] OTHER -> NotFatal(invalid_selected_name_prefix(prefix, prefix_pos))

\* Mutation: an OtherAlias prefix is rejected like any other invalid prefix.
lookup_selected_strict_alias(prefix_pos, prefix, suffix) ==
  LET kind == actual_kind(prefix) IN
  CASE kind = "Library" ->
         LET named_entity == lookup_in_library(prefix, suffix.pos, suffix.des) IN
         IF named_entity.tag # "Ok" THEN named_entity
         ELSE Ok(Single(named_entity.val))
    [] kind \in {"Object", "ElementDeclaration"} ->
         lookup_type_selected(prefix_pos, base(prefix), suffix)
    [] kind \in {"Package", "PackageInstance", "LocalPackageInstance"} ->
         LET decl == Region_lookup_selected(prefix, suffix.des) IN
         IF decl.k # "None" THEN Ok(decl)
         ELSE NotFatal(no_declaration_within(prefix, suffix))
    [] OTHER -> NotFatal(invalid_selected_name_prefix(prefix, prefix_pos))

lookup_selected(prefix_pos, prefix, suffix) ==
  LET kind == actual_kind(prefix) IN
  CASE kind = "Library" ->
         LET named_entity == lookup_in_library(prefix, suffix.pos, suffix.des) IN
         IF named_entity.tag # "Ok" THEN named_entity
         ELSE Ok(Single(named_entity.val))
    [] kind = "UninstPackage" -> NotFatal(invalid_selected_name_prefix(prefix, prefix_pos))
    [] kind \in {"Object", "ElementDeclaration"} ->
         lookup_type_selected(prefix_pos, base(prefix), suffix)
    [] kind \in {"Package", "PackageInstance", "LocalPackageInstance"} ->
         LET decl == Region_lookup_selected(prefix, suffix.des) IN
         IF decl.k # "None" THEN Ok(decl)
         ELSE NotFatal(no_declaration_within(prefix, suffix))
    [] kind = "OtherAlias" -> Ok(NoneVal)
    [] OTHER -> NotFatal(invalid_selected_name_prefix(prefix, prefix_pos))

\* ------------------------------------------------------ reference slots
\* WithRef::clear_reference
clear_reference(st, slot) == [st EXCEPT !.refs[slot] = NoneVal]
\* WithRef::set_reference
set_reference(st, slot, visible) == [st EXCEPT !.refs[slot] = visible]
\* DiagnosticHandler::push
push(st, diag) == [st EXCEPT !.diags = Append(@, diag)]

\* AnalysisError::add_to: a NotFatal error is pushed, a fatal one is returned
add_to(st, err) ==
  IF err.tag = "NotFatal" THEN [st |-> push(st, err.diag), res |-> Ok(NoneVal)]
  ELSE [st |-> st, res |-> Fatal(err.err)]

Ret(st, res) == [st |-> st, res |-> res]

\* ------------------------------------------------------- selected names
RECURSIVE resolve_selected_name(_, _, _)
resolve_selected_name(st, region, name) ==
  IF name.item.form = "Selected" THEN
    LET prefix == name.item.prefix
        suffix == name.item.suffix
        invalid == NotFatal(Diagnostic_error(prefix.pos, <<"Invalid prefix for selected name">>))
        \* match prefix_ent.lookup_selected(..)?
        looked_up(r, l) ==
          IF l.tag # "Ok" THEN Ret(r.st, l)
          ELSE IF l.val.k # "None"
               THEN Ret(set_reference(r.st, suffix.slot, l.val), Ok(l.val))
               ELSE Ret(r.st, invalid)
        \* r is self.resolve_selected_name(region, prefix)
        resolved(r) ==
          IF r.res.tag # "Ok" THEN r
          ELSE LET prefix_ent == into_non_overloaded(r.res.val) IN
               IF prefix_ent.ok
               THEN looked_up(r, lookup_selected(prefix.pos, prefix_ent.ent, suffix))
               ELSE Ret(r.st, invalid)
    IN
    resolved(resolve_selected_name(clear_reference(st, suffix.slot), region, prefix))
  ELSE
    LET designator == name.item
        \* visible is region.lookup_within(&name.pos, designator.designator())
        looked_up(st1, visible) ==
          IF visible.tag # "Ok" THEN Ret(st1, visible)
          ELSE Ret(set_reference(st1, designator.slot, visible.val), visible)
    IN
    looked_up(clear_reference(st, designator.slot),
              lookup_within(region, name.pos, designator.des))

\* WithPos<SelectedName>::suffix_pos
suffix_pos(name) ==
  IF name.item.form = "Selected" THEN name.item.suffix.pos ELSE name.pos

\* NamedEntityKind::is_type
is_type(kind) ==
  kind \in {"RecordType", "ProtectedType", "IncompleteType", "Subtype",
            "AccessType", "IntegerType"}

\* NamedEntity::decl_pos: the library is the one entity without a declaration
has_decl_pos(ent) == actual_kind(ent) # "Library"

resolve_non_overloaded(st, region, name, expected) ==
  LET \* r is self.resolve_selected_name(region, name)
      resolved(r) ==
        IF r.res.tag # "Ok" THEN r
        ELSE LET n == into_non_overloaded(r.res.val) IN
             IF n.ok THEN
               IF is_type(actual_kind(n.ent)) THEN Ret(r.st, Ok(Single(n.ent)))
               ELSE LET error == Diagnostic_error(suffix_pos(name),
                                   <<"Expected", expected, "got">> \o describe(n.ent))
                    IN Ret(r.st, NotFatal(IF has_decl_pos(n.ent)
                                          THEN add_related(error, n.ent) ELSE error))
             ELSE LET error == Diagnostic_error(suffix_pos(name),
                                 <<"Expected", expected, "got overloaded name">>)
                  IN Ret(r.st, NotFatal([error EXCEPT !.related = r.res.val.ents]))
  IN resolved(resolve_selected_name(st, region, name))

resolve_type_mark(st, region, type_mark) ==
  resolve_non_overloaded(st, region, type_mark, "type")

\* ------------------------------------------------ external collaborators
\* A target, a signature and a subtype indication carry the outcome their
\* analyzer has on them: "ok", "diag" (a diagnostic, analysis goes on) or "fatal".
analyze_target(st, region, target) ==
  CASE target.outcome = "fatal" -> Ret(st, Fatal("fatal in target"))
    [] target.outcome = "diag" ->
         Ret(push(st, Diagnostic_error(target.pos, <<"Invalid target">>)), Ok(NoneVal))
    [] OTHER -> Ret(st, Ok(NoneVal))

resolve_signature(st, region, signature) ==
  CASE signature.outcome = "fatal" -> Ret(st, Fatal("fatal in signature"))
    [] signature.outcome = "diag" ->
         Ret(st, NotFatal(Diagnostic_error(signature.pos, <<"Invalid signature">>)))
    [] OTHER -> Ret(st, Ok(NoneVal))

analyze_subtype_indication(st, region, subtype) ==
  CASE subtype.outcome = "fatal" -> Ret(st, Fatal("fatal in subtype indication"))
    [] subtype.outcome = "diag" ->
         Ret(push(st, Diagnostic_error(subtype.pos, <<"Invalid subtype indication">>)),
             Ok(NoneVal))
    [] OTHER -> Ret(st, Ok(NoneVal))

\* ------------------------------------------------------------ resolver
RECURSIVE self_call(_, _)

\* Mutation: an overloaded prefix is dropped without a diagnostic.
resolve_prefix_silent(st, region, prefix_pos, prefix) ==
  LET resolved_name == self_call("resolve_name", <<st, region, prefix_pos, prefix>>) IN
  IF resolved_name.res.tag = "Fatal" THEN resolved_name
  ELSE IF resolved_name.res.val.k = "Single" THEN resolved_name
  ELSE Ret(resolved_name.st, Ok(NoneVal))

resolve_prefix(st, region, prefix_pos, prefix) ==
  LET resolved_name == self_call("resolve_name", <<st, region, prefix_pos, prefix>>) IN
  IF resolved_name.res.tag = "Fatal" THEN resolved_name
  ELSE LET named_entities == resolved_name.res.val IN
       CASE named_entities.k = "Single" -> resolved_name
         [] named_entities.k = "Overloaded" ->
              Ret(push(resolved_name.st,
                       Diagnostic_error(prefix_pos,
                         <<"Overloaded name", named_entities.des,
                           "may not be the prefix of selected name">>)),
                  Ok(NoneVal))
         [] OTHER -> Ret(resolved_name.st, Ok(NoneVal))

\* Mutation: a prefix that gave no entity still gets a diagnostic about the suffix.
resolve_name_Selected_cascading(st, region, name) ==
  LET prefix == name.prefix
      suffix == name.suffix
      st1 == clear_reference(st, suffix.slot)
      p == self_call("resolve_prefix", <<st1, region, prefix.pos, prefix.item>>)
      \* l is named_entity.lookup_selected(&prefix.pos, suffix)
      looked_up(l) ==
        IF l.tag = "Ok" THEN
          IF l.val.k # "None"
          THEN Ret(set_reference(p.st, suffix.slot, l.val), Ok(l.val))
          ELSE Ret(p.st, Ok(NoneVal))
        ELSE LET a == add_to(p.st, l) IN
             IF a.res.tag = "Fatal" THEN a ELSE Ret(a.st, Ok(NoneVal))
  IN
  IF p.res.tag = "Fatal" THEN p
  ELSE IF p.res.val.k = "None"
  THEN Ret(push(p.st, Diagnostic_error(suffix.pos, <<"No declaration of", suffix.des>>)),
           Ok(NoneVal))
  ELSE LET named_entity == into_non_overloaded(p.res.val).ent IN
       looked_up(lookup_selected(prefix.pos, named_entity, suffix))

\* Mutation: an error of the suffix lookup, fatal or not, ends as Ok(None).
resolve_name_Selected_swallowing(st, region, name) ==
  LET prefix == name.prefix
      suffix == name.suffix
      st1 == clear_reference(st, suffix.slot)
      p == self_call("resolve_prefix", <<st1, region, prefix.pos, prefix.item>>)
      looked_up(l) ==
        IF l.tag = "Ok" THEN
          IF l.val.k # "None"
          THEN Ret(set_reference(p.st, suffix.slot, l.val), Ok(l.val))
          ELSE Ret(p.st, Ok(NoneVal))
        ELSE Ret(add_to(p.st, l).st, Ok(NoneVal))
  IN
  IF p.res.tag = "Fatal" THEN p
  ELSE IF p.res.val.k = "None" THEN Ret(p.st, Ok(NoneVal))
  ELSE LET named_entity == into_non_overloaded(p.res.val).ent IN
       looked_up(lookup_selected(prefix.pos, named_entity, suffix))

\* Name::Selected arm of resolve_name
resolve_name_Selected(st, region, name) ==
  LET prefix == name.prefix
      suffix == name.suffix
      st1 == clear_reference(st, suffix.slot)
      p == self_call("resolve_prefix", <<st1, region, prefix.pos, prefix.item>>)
      \* l is named_entity.lookup_selected(&prefix.pos, suffix)
      looked_up(l) ==
        IF l.tag = "Ok" THEN
          IF l.val.k # "None"
          THEN Ret(set_reference(p.st, suffix.slot, l.val), Ok(l.val))
          ELSE Ret(p.st, Ok(NoneVal))
        ELSE LET a == add_to(p.st, l) IN
             IF a.res.tag = "Fatal" THEN a ELSE Ret(a.st, Ok(NoneVal))
  IN
  IF p.res.tag = "Fatal" THEN p
  ELSE IF p.res.val.k = "None" THEN Ret(p.st, Ok(NoneVal))
  ELSE LET named_entity == into_non_overloaded(p.res.val).ent IN
       looked_up(lookup_selected(prefix.pos, named_entity, suffix))

\* Mutation: the slot is not cleared before the lookup.
resolve_name_Designator_no_clear(st, region, name_pos, designator) ==
  LET looked_up(visible) ==
        IF visible.tag = "Ok"
        THEN Ret(set_reference(st, designator.slot, visible.val), Ok(visible.val))
        ELSE Ret(push(st, visible.diag), Ok(NoneVal))
  IN looked_up(lookup_within(region, name_pos, designator.des))

\* Name::Designator arm of resolve_name
resolve_name_Designator(st, region, name_pos, designator) ==
  LET st1 == clear_reference(st, designator.slot)
      \* visible is region.lookup_within(name_pos, designator.designator())
      looked_up(visible) ==
        IF visible.tag = "Ok"
        THEN Ret(set_reference(st1, designator.slot, visible.val), Ok(visible.val))
        ELSE Ret(push(st1, visible.diag), Ok(NoneVal))
  IN looked_up(lookup_within(region, name_pos, designator.des))

\* The resolver never binds these forms: whatever the nested step returned,
\* a fatal error is passed on and anything else becomes None.
NoBinding(r) == IF r.res.tag = "Fatal" THEN r ELSE Ret(r.st, Ok(NoneVal))

\* Mutation: an indexed name binds to what its prefix denotes.
resolve_name_binding(st, region, name_pos, name) ==
  CASE name.form = "Selected" -> resolve_name_Selected(st, region, name)
    [] name.form = "SelectedAll" ->
         NoBinding(self_call("resolve_prefix", <<st, region, name.prefix.pos, name.prefix.item>>))
    [] name.form = "Designator" -> resolve_name_Designator(st, region, name_pos, name)
    [] name.form = "Indexed" ->
         LET indexed(r) ==
               IF r.res.tag = "Fatal" THEN r
               ELSE LET analyzed(e) == IF e.res.tag = "Fatal" THEN e ELSE Ret(e.st, r.res)
                    IN analyzed(self_call("analyze_index_exprs", <<r.st, region, name.exprs>>))
         IN indexed(self_call("resolve_name", <<st, region, name.prefix.pos, name.prefix.item>>))
    [] name.form = "Slice" ->
         LET r == self_call("resolve_name", <<st, region, name.prefix.pos, name.prefix.item>>) IN
         IF r.res.tag = "Fatal" THEN r
         ELSE NoBinding(self_call("analyze_discrete_range", <<r.st, region, name.drange>>))
    [] name.form = "Attribute" -> NoBinding(self_call("analyze_attribute_name", <<st, region, name.attr>>))
    [] name.form = "FunctionCall" -> NoBinding(self_call("analyze_function_call", <<st, region, name.fcall>>))
    [] name.form = "External" ->
         NoBinding(analyze_subtype_indication(st, region, name.subtype))

resolve_name(st, region, name_pos, name) ==
  CASE name.form = "Selected" -> resolve_name_Selected(st, region, name)
    [] name.form = "SelectedAll" ->
         NoBinding(self_call("resolve_prefix", <<st, region, name.prefix.pos, name.prefix.item>>))
    [] name.form = "Designator" -> resolve_name_Designator(st, region, name_pos, name)
    [] name.form = "Indexed" ->
         LET r == self_call("resolve_name", <<st, region, name.prefix.pos, name.prefix.item>>) IN
         IF r.res.tag = "Fatal" THEN r
         ELSE NoBinding(self_call("analyze_index_exprs", <<r.st, region, name.exprs>>))
    [] name.form = "Slice" ->
         LET r == self_call("resolve_name", <<st, region, name.prefix.pos, name.prefix.item>>) IN
         IF r.res.tag = "Fatal" THEN r
         ELSE NoBinding(self_call("analyze_discrete_range", <<r.st, region, name.drange>>))
    [] name.form = "Attribute" -> NoBinding(self_call("analyze_attribute_name", <<st, region, name.attr>>))
    [] name.form = "FunctionCall" -> NoBinding(self_call("analyze_function_call", <<st, region, name.fcall>>))
    [] name.form = "External" ->
         NoBinding(analyze_subtype_indication(st, region, name.subtype))

\* for expr in exprs.iter_mut() { self.analyze_expression(..)?; }
analyze_index_exprs(st, region, exprs) ==
  IF exprs = <<>> THEN Ret(st, Ok(NoneVal))
  ELSE LET r == self_call("analyze_expression", <<st, region, Head(exprs)>>) IN
       IF r.res.tag = "Fatal" THEN r ELSE self_call("analyze_index_exprs", <<r.st, region, Tail(exprs)>>)

analyze_attribute_name(st, region, attr) ==
  LET r1 == self_call("resolve_name", <<st, region, attr.name.pos, attr.name.item>>) IN
  IF r1.res.tag = "Fatal" THEN r1
  ELSE
    LET r2 == IF attr.signature.some
              THEN LET s == resolve_signature(r1.st, region, attr.signature.v) IN
                   IF s.res.tag = "Ok" THEN Ret(s.st, Ok(NoneVal)) ELSE add_to(s.st, s.res)
              ELSE Ret(r1.st, Ok(NoneVal))
    IN
    IF r2.res.tag = "Fatal" THEN r2
    ELSE IF attr.expr.some
         THEN NoBinding(self_call("analyze_expression", <<r2.st, region, attr.expr.v>>))
         ELSE Ret(r2.st, Ok(NoneVal))

analyze_range(st, region, range) ==
  IF range.form = "Range" THEN
    LET l == self_call("analyze_expression", <<st, region, range.left_expr>>) IN
    IF l.res.tag = "Fatal" THEN l
    ELSE NoBinding(self_call("analyze_expression", <<l.st, region, range.right_expr>>))
  ELSE NoBinding(self_call("analyze_attribute_name", <<st, region, range.attr>>))

\* Mutation: an error of the type mark is dropped instead of pushed.
analyze_discrete_range_silent(st, region, drange) ==
  IF drange.form = "Discrete" THEN
    LET resolved(t) ==
          IF t.res.tag = "Fatal" THEN t
          ELSE IF drange.range.some
               THEN NoBinding(self_call("analyze_range", <<t.st, region, drange.range.v>>))
               ELSE Ret(t.st, Ok(NoneVal))
    IN resolved(resolve_type_mark(st, region, drange.type_mark))
  ELSE NoBinding(self_call("analyze_range", <<st, region, drange.range>>))

analyze_discrete_range(st, region, drange) ==
  IF drange.form = "Discrete" THEN
    LET \* a is the state after if let Err(err) = self.resolve_type_mark(..) { err.add_to(..)? }
        added(a) ==
          IF a.res.tag = "Fatal" THEN a
          ELSE IF drange.range.some
               THEN NoBinding(self_call("analyze_range", <<a.st, region, drange.range.v>>))
               ELSE Ret(a.st, Ok(NoneVal))
        resolved(t) ==
          added(IF t.res.tag = "Ok" THEN Ret(t.st, Ok(NoneVal)) ELSE add_to(t.st, t.res))
    IN resolved(resolve_type_mark(st, region, drange.type_mark))
  ELSE NoBinding(self_call("analyze_range", <<st, region, drange.range>>))

analyze_choices(st, region, choices) ==
  IF choices = <<>> THEN Ret(st, Ok(NoneVal))
  ELSE LET choice == Head(choices)
           r == CASE choice.form = "Expression" -> self_call("analyze_expression", <<st, region, choice.expr>>)
                  [] choice.form = "DiscreteRange" ->
                       self_call("analyze_discrete_range", <<st, region, choice.drange>>)
                  [] OTHER -> Ret(st, Ok(NoneVal))
       IN IF r.res.tag = "Fatal" THEN r ELSE self_call("analyze_choices", <<r.st, region, Tail(choices)>>)

analyze_expression(st, region, expr) ==
  self_call("analyze_expression_pos", <<st, region, expr.pos, expr.item>>)

analyze_waveform(st, region, wavf) ==
  IF wavf.form = "Unaffected" \/ wavf.elems = <<>> THEN Ret(st, Ok(NoneVal))
  ELSE LET elem == Head(wavf.elems)
           v == self_call("analyze_expression", <<st, region, elem.value>>)
       IN
       IF v.res.tag = "Fatal" THEN v
       ELSE LET d == IF elem.after.some
                     THEN self_call("analyze_expression", <<v.st, region, elem.after.v>>)
                     ELSE Ret(v.st, Ok(NoneVal))
            IN IF d.res.tag = "Fatal" THEN d
               ELSE self_call("analyze_waveform", <<d.st, region, [wavf EXCEPT !.elems = Tail(@)]>>)

analyze_assoc_elems(st, region, elems) ==
  IF elems = <<>> THEN Ret(st, Ok(NoneVal))
  ELSE LET actual == Head(elems).actual
           r == IF actual.item.form = "Expression"
                THEN self_call("analyze_expression_pos", <<st, region, actual.pos, actual.item.expr>>)
                ELSE Ret(st, Ok(NoneVal))
       IN IF r.res.tag = "Fatal" THEN r ELSE self_call("analyze_assoc_elems", <<r.st, region, Tail(elems)>>)

analyze_function_call(st, region, fcall) ==
  LET r == self_call("resolve_name", <<st, region, fcall.name.pos, fcall.name.item>>) IN
  IF r.res.tag = "Fatal" THEN r
  ELSE self_call("analyze_assoc_elems", <<r.st, region, fcall.parameters>>)

\* the choices of one ElementAssociation::Named
analyze_aggregate_choices(st, region, choices) ==
  IF choices = <<>> THEN Ret(st, Ok(NoneVal))
  ELSE LET choice == Head(choices)
           r == IF choice.form = "DiscreteRange"
                THEN self_call("analyze_discrete_range", <<st, region, choice.drange>>)
                ELSE Ret(st, Ok(NoneVal))
       IN IF r.res.tag = "Fatal" THEN r
          ELSE self_call("analyze_aggregate_choices", <<r.st, region, Tail(choices)>>)

analyze_aggregate(st, region, assocs) ==
  IF assocs = <<>> THEN Ret(st, Ok(NoneVal))
  ELSE LET assoc == Head(assocs)
           c == IF assoc.form = "Named"
                THEN self_call("analyze_aggregate_choices", <<st, region, assoc.choices>>)
                ELSE Ret(st, Ok(NoneVal))
       IN
       IF c.res.tag = "Fatal" THEN c
       ELSE LET e == self_call("analyze_expression", <<c.st, region, assoc.expr>>) IN
            IF e.res.tag = "Fatal" THEN e ELSE self_call("analyze_aggregate", <<e.st, region, Tail(assocs)>>)

analyze_qualified_expression(st, region, qexpr) ==
  LET r == self_call("resolve_name", <<st, region, qexpr.name.pos, qexpr.name.item>>) IN
  IF r.res.tag = "Fatal" THEN r
  ELSE NoBinding(self_call("analyze_expression", <<r.st, region, qexpr.expr>>))

analyze_expression_pos(st, region, pos, expr) ==
  CASE expr.form = "Binary" ->
         LET l == self_call("analyze_expression", <<st, region, expr.left>>) IN
         IF l.res.tag = "Fatal" THEN l ELSE self_call("analyze_expression", <<l.st, region, expr.right>>)
    [] expr.form = "Unary" -> self_call("analyze_expression", <<st, region, expr.inner>>)
    [] expr.form = "Name" -> NoBinding(self_call("resolve_name", <<st, region, pos, expr.name>>))
    [] expr.form = "Aggregate" -> self_call("analyze_aggregate", <<st, region, expr.assocs>>)
    [] expr.form = "Qualified" -> self_call("analyze_qualified_expression", <<st, region, expr.qexpr>>)
    [] expr.form = "NewQualified" -> self_call("analyze_qualified_expression", <<st, region, expr.qexpr>>)
    [] expr.form = "NewSubtype" -> analyze_subtype_indication(st, region, expr.subtype)
    [] OTHER -> Ret(st, Ok(NoneVal))

\* ---------------------------------------------------------- assignments
\* for conditional in conditionals, of analyze_expr_assignment
expr_conditionals(st, region, conditionals) ==
  IF conditionals = <<>> THEN Ret(st, Ok(NoneVal))
  ELSE LET conditional == Head(conditionals)
           i == self_call("analyze_expression", <<st, region, conditional.item>>)
       IN
       IF i.res.tag = "Fatal" THEN i
       ELSE LET c == self_call("analyze_expression", <<i.st, region, conditional.condition>>) IN
            IF c.res.tag = "Fatal" THEN c
            ELSE self_call("expr_conditionals", <<c.st, region, Tail(conditionals)>>)

\* for Alternative { choices, item } in alternatives, of analyze_expr_assignment
expr_alternatives(st, region, alternatives) ==
  IF alternatives = <<>> THEN Ret(st, Ok(NoneVal))
  ELSE LET alternative == Head(alternatives)
           i == self_call("analyze_expression", <<st, region, alternative.item>>)
       IN
       IF i.res.tag = "Fatal" THEN i
       ELSE LET c == self_call("analyze_choices", <<i.st, region, alternative.choices>>) IN
            IF c.res.tag = "Fatal" THEN c
            ELSE self_call("expr_alternatives", <<c.st, region, Tail(alternatives)>>)

analyze_expr_assignment(st, region, target, rhs) ==
  CASE rhs.form = "Simple" ->
         LET t == analyze_target(st, region, target) IN
         IF t.res.tag = "Fatal" THEN t
         ELSE NoBinding(self_call("analyze_expression", <<t.st, region, rhs.item>>))
    [] rhs.form = "Conditional" ->
         LET t == analyze_target(st, region, target) IN
         IF t.res.tag = "Fatal" THEN t
         ELSE LET c == self_call("expr_conditionals", <<t.st, region, rhs.conditionals>>) IN
              IF c.res.tag = "Fatal" THEN c
              ELSE IF rhs.else_item.some
                   THEN NoBinding(self_call("analyze_expression", <<c.st, region, rhs.else_item.v>>))
                   ELSE Ret(c.st, Ok(NoneVal))
    [] rhs.form = "Selected" ->
         LET e == self_call("analyze_expression", <<st, region, rhs.expression>>) IN
         IF e.res.tag = "Fatal" THEN e
         ELSE LET t == analyze_target(e.st, region, target) IN
              IF t.res.tag = "Fatal" THEN t
              ELSE self_call("expr_alternatives", <<t.st, region, rhs.alternatives>>)

\* for conditional in conditionals, of analyze_waveform_assignment
waveform_conditionals(st, region, conditionals) ==
  IF conditionals = <<>> THEN Ret(st, Ok(NoneVal))
  ELSE LET conditional == Head(conditionals)
           i == self_call("analyze_waveform", <<st, region, conditional.item>>)
       IN
       IF i.res.tag = "Fatal" THEN i
       ELSE LET c == self_call("analyze_expression", <<i.st, region, conditional.condition>>) IN
            IF c.res.tag = "Fatal" THEN c
            ELSE self_call("waveform_conditionals", <<c.st, region, Tail(conditionals)>>)

\* for Alternative { choices, item } in alternatives, of analyze_waveform_assignment
waveform_alternatives(st, region, alternatives) ==
  IF alternatives = <<>> THEN Ret(st, Ok(NoneVal))
  ELSE LET alternative == Head(alternatives)
           i == self_call("analyze_waveform", <<st, region, alternative.item>>)
       IN
       IF i.res.tag = "Fatal" THEN i
       ELSE LET c == self_call("analyze_choices", <<i.st, region, alternative.choices>>) IN
            IF c.res.tag = "Fatal" THEN c
            ELSE self_call("waveform_alternatives", <<c.st, region, Tail(alternatives)>>)

\* Mutation: a selected waveform assignment analyzes its target before its selector.
analyze_waveform_assignment_target_first(st, region, target, rhs) ==
  CASE rhs.form = "Simple" ->
         LET t == analyze_target(st, region, target) IN
         IF t.res.tag = "Fatal" THEN t
         ELSE NoBinding(self_call("analyze_waveform", <<t.st, region, rhs.item>>))
    [] rhs.form = "Conditional" ->
         LET t == analyze_target(st, region, target) IN
         IF t.res.tag = "Fatal" THEN t
         ELSE LET c == self_call("waveform_conditionals", <<t.st, region, rhs.conditionals>>) IN
              IF c.res.tag = "Fatal" THEN c
              ELSE IF rhs.else_item.some
                   THEN NoBinding(self_call("analyze_waveform", <<c.st, region, rhs.else_item.v>>))
                   ELSE Ret(c.st, Ok(NoneVal))
    [] rhs.form = "Selected" ->
         LET t == analyze_target(st, region, target) IN
         IF t.res.tag = "Fatal" THEN t
         ELSE LET e == self_call("analyze_expression", <<t.st, region, rhs.expression>>) IN
              IF e.res.tag = "Fatal" THEN e
              ELSE self_call("waveform_alternatives", <<e.st, region, rhs.alternatives>>)

analyze_waveform_assignment(st, region, target, rhs) ==
  CASE rhs.form = "Simple" ->
         LET t == analyze_target(st, region, target) IN
         IF t.res.tag = "Fatal" THEN t
         ELSE NoBinding(self_call("analyze_waveform", <<t.st, region, rhs.item>>))
    [] rhs.form = "Conditional" ->
         LET t == analyze_target(st, region, target) IN
         IF t.res.tag = "Fatal" THEN t
         ELSE LET c == self_call("waveform_conditionals", <<t.st, region, rhs.conditionals>>) IN
              IF c.res.tag = "Fatal" THEN c
              ELSE IF rhs.else_item.some
                   THEN NoBinding(self_call("analyze_waveform", <<c.st, region, rhs.else_item.v>>))
                   ELSE Ret(c.st, Ok(NoneVal))
    [] rhs.form = "Selected" ->
         LET e == self_call("analyze_expression", <<st, region, rhs.expression>>) IN
         IF e.res.tag = "Fatal" THEN e
         ELSE LET t == analyze_target(e.st, region, target) IN
              IF t.res.tag = "Fatal" THEN t
              ELSE self_call("waveform_alternatives", <<t.st, region, rhs.alternatives>>)

\* self.method(args): every call of one analyzer method by another
self_call(method, args) ==
  CASE method = "resolve_name" ->
         resolve_name(args[1], args[2], args[3], args[4])
    [] method = "resolve_prefix" ->
         resolve_prefix(args[1], args[2], args[3], args[4])
    [] method = "analyze_expression_pos" ->
         analyze_expression_pos(args[1], args[2], args[3], args[4])
    [] method = "analyze_expression" ->
         analyze_expression(args[1], args[2], args[3])
    [] method = "analyze_index_exprs" ->
         analyze_index_exprs(args[1], args[2], args[3])
    [] method = "analyze_attribute_name" ->
         analyze_attribute_name(args[1], args[2], args[3])
    [] method = "analyze_range" ->
         analyze_range(args[1], args[2], args[3])
    [] method = "analyze_discrete_range" ->
         analyze_discrete_range(args[1], args[2], args[3])
    [] method = "analyze_choices" ->
         analyze_choices(args[1], args[2], args[3])
    [] method = "analyze_waveform" ->
         analyze_waveform(args[1], args[2], args[3])
    [] method = "analyze_assoc_elems" ->
         analyze_assoc_elems(args[1], args[2], args[3])
    [] method = "analyze_function_call" ->
         analyze_function_call(args[1], args[2], args[3])
    [] method = "analyze_aggregate_choices" ->
         analyze_aggregate_choices(args[1], args[2], args[3])
    [] method = "analyze_aggregate" ->
         analyze_aggregate(args[1], args[2], args[3])
    [] method = "analyze_qualified_expression" ->
         analyze_qualified_expression(args[1], args[2], args[3])
    [] method = "expr_conditionals" ->
         expr_conditionals(args[1], args[2], args[3])
    [] method = "expr_alternatives" ->
         expr_alternatives(args[1], args[2], args[3])
    [] method = "analyze_expr_assignment" ->
         analyze_expr_assignment(args[1], args[2], args[3], args[4])
    [] method = "waveform_conditionals" ->
         waveform_conditionals(args[1], args[2], args[3])
    [] method = "waveform_alternatives" ->
         waveform_alternatives(args[1], args[2], args[3])
    [] method = "analyze_waveform_assignment" ->
         analyze_waveform_assignment(args[1], args[2], args[3], args[4])

\* ---------------------------------------------------------- syntax trees
\* Position of designator i of name n, and of the prefix d0..di of name n.
DesPos(n, i) == <<n, i, i>>
SpanPos(n, i) == <<n, 0, i>>
Front(seq) == SubSeq(seq, 1, Len(seq) - 1)
Min(a, b) == IF a <= b THEN a ELSE b

\* ast::Name of the chain d0.d1...dn written at name n
RECURSIVE MkName(_, _)
MkName(n, chain) ==
  IF Len(chain) = 1
  THEN [form |-> "Designator", des |-> chain[1], slot |-> DesPos(n, 0)]
  ELSE [form |-> "Selected",
        prefix |-> [pos |-> SpanPos(n, Len(chain) - 2), item |-> MkName(n, Front(chain))],
        suffix |-> [des |-> chain[Len(chain)], pos |-> DesPos(n, Len(chain) - 1),
                    slot |-> DesPos(n, Len(chain) - 1)]]

\* ast::WithPos<SelectedName> of the chain d0.d1...dn written at name n
RECURSIVE MkSelectedName(_, _)
MkSelectedName(n, chain) ==
  [pos |-> SpanPos(n, Len(chain) - 1),
   item |-> IF Len(chain) = 1
            THEN [form |-> "Designator", des |-> chain[1], slot |-> DesPos(n, 0)]
            ELSE [form |-> "Selected",
                  prefix |-> MkSelectedName(n, Front(chain)),
                  suffix |-> [des |-> chain[Len(chain)], pos |-> DesPos(n, Len(chain) - 1),
                              slot |-> DesPos(n, Len(chain) - 1)]]]

None == [some |-> FALSE, v |-> <<>>]
Some(x) == [some |-> TRUE, v |-> x]

\* The names given to the resolvers: every prefix, up to MaxChain designators,
\* of these chains.
FullChains ==
  {<<"work", "pkg", "rec", "next", "val">>, <<"work", "pkg", "CONST", "x">>,
   <<"work", "pkg", "missing", "x">>, <<"work", "missing", "x", "y">>,
   <<"work", "cyc", "x", "y">>, <<"missing", "b", "c", "d">>,
   <<"rec", "next", "next", "val">>, <<"rec", "next", "val", "x">>,
   <<"rec", "missing", "x", "y">>, <<"rec", "next", "missing", "x">>,
   <<"wobj", "x", "y", "z">>,
   <<"func", "attr", "x", "y">>, <<"pkg", "func", "x", "y">>,
   <<"shared_v", "get", "x", "y">>, <<"shared_v", "count", "x", "y">>,
   <<"ali", "x", "y", "z">>, <<"oali", "x", "y", "z">>,
   <<"oali", "val", "x", "y">>,
   <<"wobj", "next", "val", "x">>, <<"upkg", "x", "y", "z">>,
   <<"inst", "CONST", "x", "y">>, <<"pkg", "rec_t", "next", "x">>,
   <<"integer", "x", "y", "z">>}
Chains == {SubSeq(c, 1, k) : c \in FullChains, k \in 1..MaxChain} \ {<<>>}

\* A statement has a target, a selector or else-value, and a value and a
\* condition (or choice list) per branch; part j owns the names j and
\* MaxParts + j (the delay expression of a waveform element).
MaxParts == 2 + 2 * MaxBranches
NameIds == 1..(2 * MaxParts)
Slots == {DesPos(n, i) : n \in NameIds, i \in 0..(MaxChain - 1)}
Cleared == [s \in Slots |-> NoneVal]
RootRegions == {"root1", "root2"}

NoStmt == [form |-> "none", target |-> "ok", sel |-> "ok", branches |-> <<>>, els |-> "absent"]
NoNode == [path |-> "none", chain |-> <<>>, stmt |-> NoStmt]
NoCall == [region |-> "", link |-> FALSE]
NoPrev == [valid |-> FALSE, refs |-> Cleared, diagnostics |-> <<>>, ret |-> Ok(NoneVal),
           before |-> Cleared]

\* ------------------------------------------ statements and expressions
\* A part of a statement is written by its kind: a name that resolves ("ok"),
\* a name whose lookup fails ("bad"), a name whose library lookup is fatal
\* ("fatal"), and for a choice also a discrete range whose type mark is
\* overloaded ("range") or a type ("okrange").
PartChain(k) ==
  CASE k = "ok" -> <<"rec", "val">>
    [] k = "bad" -> <<"missing", "x">>
    [] k = "fatal" -> <<"lib", CircularUnit>>
    [] k = "range" -> <<"pkg", "func">>
    [] k = "okrange" -> <<"pkg", "rec_t">>
    [] k = "fine" -> <<"work", "pkg">>

Literal == [pos |-> NoPos, item |-> [form |-> "Literal"]]
NameExpr(n, chain) ==
  [pos |-> SpanPos(n, Len(chain) - 1), item |-> [form |-> "Name", name |-> MkName(n, chain)]]
PartExpr(k, n) == NameExpr(n, PartChain(k))
PartPrefix(k, n) ==
  [pos |-> SpanPos(n, Len(PartChain(k)) - 1), item |-> MkName(n, PartChain(k))]
TypeMarkRange(k, n, range) ==
  [form |-> "Discrete",
   type_mark |-> MkSelectedName(n, PartChain(IF k = "bad" THEN "range"
                                          ELSE IF k = "ok" THEN "okrange" ELSE k)),
   range |-> range]
PartChoices(k, n) ==
  <<IF k \in {"range", "okrange"}
    THEN [form |-> "DiscreteRange", drange |-> TypeMarkRange(k, n, None)]
    ELSE [form |-> "Expression", expr |-> PartExpr(k, n)],
    [form |-> "Others"]>>
\* A waveform with one element and a delay, or unaffected.
PartWaveform(k, n) ==
  IF k = "unaffected" THEN [form |-> "Unaffected", elems |-> <<>>]
  ELSE [form |-> "Elements",
        elems |-> <<[value |-> PartExpr(k, n),
                     after |-> Some(NameExpr(MaxParts + n, <<"CONST">>))]>>]
PartItem(k, n, payload) ==
  IF payload = "waveform" THEN PartWaveform(k, n) ELSE PartExpr(k, n)

ItemId(b) == 1 + 2 * b
CondId(b) == 2 + 2 * b
MkTarget(d) == [pos |-> SpanPos(1, 0), outcome |-> d.target]
MkRhs(d, payload) ==
  CASE d.form = "Simple" -> [form |-> "Simple", item |-> PartItem(d.sel, 2, payload)]
    [] d.form = "Conditional" ->
         [form |-> "Conditional",
          conditionals |-> [b \in 1..Len(d.branches) |->
                              [item |-> PartItem(d.branches[b].item, ItemId(b), payload),
                               condition |-> PartExpr(d.branches[b].cond, CondId(b))]],
          else_item |-> IF d.els = "absent" THEN None
                        ELSE Some(PartItem(d.els, 2, payload))]
    [] d.form = "Selected" ->
         [form |-> "Selected",
          expression |-> PartExpr(d.sel, 2),
          alternatives |-> [b \in 1..Len(d.branches) |->
                              [item |-> PartItem(d.branches[b].item, ItemId(b), payload),
                               choices |-> PartChoices(d.branches[b].cond, CondId(b))]]]

\* An expression of a given form over a first part (a name, d.sel), a second
\* part (an expression or a type mark, d.els) and a collaborator node (a
\* signature or a subtype indication, with outcome d.target).
Collab(d) == [pos |-> SpanPos(3, 0), outcome |-> d.target]
AttrOf(d) ==
  [name |-> PartPrefix(d.sel, 1), signature |-> Some(Collab(d)),
   expr |-> Some(PartExpr(d.els, 2))]
NameItem(name) == [pos |-> SpanPos(1, 1), item |-> [form |-> "Name", name |-> name]]
MkExpr(d) ==
  CASE d.form = "Binary" ->
         [pos |-> SpanPos(1, 1),
          item |-> [form |-> "Binary", left |-> PartExpr(d.sel, 1), right |-> PartExpr(d.els, 2)]]
    [] d.form = "Unary" ->
         [pos |-> SpanPos(2, 1), item |-> [form |-> "Unary", inner |-> PartExpr(d.els, 2)]]
    [] d.form = "SelectedAll" ->
         NameItem([form |-> "SelectedAll", prefix |-> PartPrefix(d.sel, 1)])
    [] d.form = "Indexed" ->
         NameItem([form |-> "Indexed", prefix |-> PartPrefix(d.sel, 1),
                   exprs |-> <<PartExpr(d.els, 2), Literal>>])
    [] d.form = "Slice" ->
         NameItem([form |-> "Slice", prefix |-> PartPrefix(d.sel, 1),
                   drange |-> TypeMarkRange(d.els, 2,
                                Some([form |-> "Range", left_expr |-> Literal,
                                      right_expr |-> Literal]))])
    [] d.form = "SliceRange" ->
         NameItem([form |-> "Slice", prefix |-> PartPrefix("ok", 4),
                   drange |-> [form |-> "Range",
                               range |-> [form |-> "Attribute", attr |-> AttrOf(d)]]])
    [] d.form = "Attribute" -> NameItem([form |-> "Attribute", attr |-> AttrOf(d)])
    [] d.form = "FunctionCall" ->
         NameItem([form |-> "FunctionCall",
                   fcall |-> [name |-> PartPrefix(d.sel, 1),
                              parameters |->
                                <<[actual |-> [pos |-> SpanPos(2, 1),
                                               item |-> [form |-> "Expression",
                                                         expr |-> PartExpr(d.els, 2).item]]],
                                  [actual |-> [pos |-> NoPos, item |-> [form |-> "Open"]]]>>]])
    [] d.form = "External" -> NameItem([form |-> "External", subtype |-> Collab(d)])
    [] d.form = "Qualified" ->
         [pos |-> SpanPos(1, 1),
          item |-> [form |-> "Qualified",
                    qexpr |-> [name |-> PartPrefix(d.sel, 1), expr |-> PartExpr(d.els, 2)]]]
    [] d.form = "NewQualified" ->
         [pos |-> SpanPos(1, 1),
          item |-> [form |-> "NewQualified",
                    qexpr |-> [name |-> PartPrefix(d.sel, 1), expr |-> PartExpr(d.els, 2)]]]
    [] d.form = "NewSubtype" ->
         [pos |-> SpanPos(3, 0), item |-> [form |-> "NewSubtype", subtype |-> Collab(d)]]
    [] d.form = "Aggregate" ->
         [pos |-> SpanPos(1, 1),
          item |-> [form |-> "Aggregate",
                    assocs |-> <<[form |-> "Named",
                                  choices |-> <<[form |-> "Expression",
                                                 expr |-> PartExpr("bad", 4)],
                                                [form |-> "DiscreteRange",
                                                 drange |-> TypeMarkRange(d.sel, 1, None)],
                                                [form |-> "Others"]>>,
                                  expr |-> PartExpr(d.els, 2)],
                                 [form |-> "Positional", expr |-> Literal]>>]]

\* The suffix selected from a name that is not a plain chain, as in a(i).des.
OuterSuffix(des) == [des |-> des, pos |-> DesPos(1, 2), slot |-> DesPos(1, 2)]
\* ast::Name of the form d.form, alone or as the prefix of one suffix.
MkCompoundName(nd) ==
  IF nd.chain = <<>> THEN MkExpr(nd.stmt).item.name
  ELSE [form |-> "Selected",
        prefix |-> [pos |-> SpanPos(1, 1), item |-> MkExpr(nd.stmt).item.name],
        suffix |-> OuterSuffix(nd.chain[1])]

\* The call the analysis driver makes on the node.
RunArgs(nd, region, st) ==
  CASE nd.path = "resolve_name" /\ nd.stmt # NoStmt ->
         <<st, region, SpanPos(1, 1), MkCompoundName(nd)>>
    [] nd.path = "resolve_name" /\ nd.stmt = NoStmt ->
         <<st, region, SpanPos(1, Len(nd.chain) - 1), MkName(1, nd.chain)>>
    [] nd.path = "analyze_discrete_range" ->
         <<st, region,
           [form |-> "Discrete", type_mark |-> MkSelectedName(1, nd.chain), range |-> None]>>
    [] nd.path = "analyze_expr_assignment" ->
         <<st, region, MkTarget(nd.stmt), MkRhs(nd.stmt, "expression")>>
    [] nd.path = "analyze_waveform_assignment" ->
         <<st, region, MkTarget(nd.stmt), MkRhs(nd.stmt, "waveform")>>
    [] nd.path = "analyze_expression" -> <<st, region, MkExpr(nd.stmt)>>

Run(nd, region, st) ==
  IF nd.path = "resolve_selected_name"
  THEN resolve_selected_name(st, region, MkSelectedName(1, nd.chain))
  ELSE self_call(nd.path, RunArgs(nd, region, st))

\* ------------------------------------------------------------- actions
TypeOK == link \in BOOLEAN

\* The parser hands over a name; its reference slots start cleared.
ParseName(chain) ==
  /\ node.path = "none"
  /\ node' = [path |-> "resolve_name", chain |-> chain, stmt |-> NoStmt]
  /\ UNCHANGED <<wrapKind, wrapTarget, link, call, refs, diagnostics, ret, before, prev, obs, stack>>

\* ... a type mark, resolved by resolve_selected_name
ParseSelectedName(chain) ==
  /\ node.path = "none"
  /\ node' = [path |-> "resolve_selected_name", chain |-> chain, stmt |-> NoStmt]
  /\ UNCHANGED <<wrapKind, wrapTarget, link, call, refs, diagnostics, ret, before, prev, obs, stack>>

\* ... a discrete range made of a type mark
ParseDiscreteRange(chain) ==
  /\ node.path = "none"
  /\ node' = [path |-> "analyze_discrete_range", chain |-> chain, stmt |-> NoStmt]
  /\ UNCHANGED <<wrapKind, wrapTarget, link, call, refs, diagnostics, ret, before, prev, obs, stack>>

\* One analysis pass over the node against a root region, with a private sink.
Analyze(region) ==
  /\ node.path # "none"
  /\ \E r \in {Run(node, region, [refs |-> refs, diags |-> <<>>])} :
     /\ refs' = r.st.refs
     /\ diagnostics' = r.st.diags
     /\ ret' = r.res
  /\ before' = refs
  /\ call' = [region |-> region, link |-> link]
  /\ prev' = IF call = [region |-> region, link |-> link]
             THEN [valid |-> TRUE, refs |-> refs, diagnostics |-> diagnostics, ret |-> ret,
                   before |-> before]
             ELSE NoPrev
  /\ UNCHANGED <<wrapKind, wrapTarget, link, node, obs, stack>>

\* The declaration pass links the incomplete type to its full type (once).
LinkFullType ==
  /\ ~link
  /\ link' = TRUE
  /\ UNCHANGED <<wrapKind, wrapTarget, call, node, refs, diagnostics, ret, before, prev, obs, stack>>

NoObs == [r \in 1..MaxReaders |-> [seen |-> FALSE, type |-> "", des |-> "", res |-> Ok(NoneVal)]]

Init ==
  /\ wrapKind \in [1..MaxWrap -> WrapKinds]
  /\ wrapTarget \in {"rec_t", "ali_t"}
  /\ link = FALSE
  /\ call = NoCall
  /\ node = NoNode
  /\ refs = Cleared
  /\ diagnostics = <<>>
  /\ ret = Ok(NoneVal)
  /\ before = Cleared
  /\ prev = NoPrev
  /\ obs = NoObs
  /\ stack = <<>>

Next ==
  \/ \E chain \in Chains : ParseName(chain)
  \/ \E chain \in Chains : ParseSelectedName(chain)
  \/ \E chain \in Chains : ParseDiscreteRange(chain)
  \/ \E region \in RootRegions : Analyze(region)
  \/ LinkFullType

Spec == Init /\ [][Next]_vars

\* ------------------------------------------------- properties: resolver
Chain == node.chain
Called == call # NoCall
\* The symbol graph the last pass saw is still the current one.
Stable == Called /\ call.link = link
\* Everything the last call reported: pushed to the sink or returned as NotFatal.
AllDiags == diagnostics \o (IF ret.tag = "NotFatal" THEN <<ret.diag>> ELSE <<>>)
ChainSlot(i) == DesPos(1, i)
Suffix(i) == [des |-> Chain[i + 1], pos |-> DesPos(1, i), slot |-> DesPos(1, i)]
EntOf(v) == CHOOSE e \in v.ents : TRUE
D0Lookup == lookup_within(call.region, DesPos(1, 0), Chain[1])

\* Follows Subtype, AccessType and linked IncompleteType edges to the type below.
RECURSIVE Unwrap(_)
Unwrap(t) ==
  IF actual_kind(t) \in {"Subtype", "AccessType"} THEN Unwrap(base(t))
  ELSE IF actual_kind(t) = "IncompleteType" /\ link THEN Unwrap(FullType)
  ELSE t

\* What looking up designator i finds when every earlier designator was found
\* and denotes a single entity; "Skipped" when an earlier step gave no entity.
Skipped == [tag |-> "Skipped", val |-> NoneVal, diag |-> NoDiag, err |-> ""]
RECURSIVE Found(_)
Found(i) ==
  IF i = 0 THEN D0Lookup
  ELSE LET p == Found(i - 1) IN
       IF p.tag = "Ok" /\ p.val.k = "Single"
       THEN lookup_selected(SpanPos(1, i - 1), EntOf(p.val), Suffix(i))
       ELSE Skipped
Succeeded(i) == Found(i).tag = "Ok" /\ Found(i).val.k # "None"

\* C1: when the leftmost designator d0 of a chain d0.d1...dn (n >= 1) fails plain
\* lookup, one resolution reports at most one diagnostic, the lookup failure of
\* d0, none about d1..dn, and returns no entities -- on resolve_name, on
\* resolve_selected_name and on a type mark of a discrete range.
C1_NoCascade ==
  (Called /\ Len(Chain) >= 2 /\ D0Lookup.tag # "Ok") =>
    /\ Len(AllDiags) <= 1
    /\ \A i \in 1..Len(AllDiags) : AllDiags[i] = D0Lookup.diag
    /\ ret.val = NoneVal
    /\ \A i \in 0..(Len(Chain) - 1) : refs[ChainSlot(i)] = NoneVal

C1_Witness ==
  /\ Called /\ node.path = "resolve_name" /\ Len(Chain) >= 3
  /\ D0Lookup.tag # "Ok"
  /\ diagnostics = <<D0Lookup.diag>>
  /\ \E s \in Slots : before[s] # NoneVal

\* The first designator of the chain whose slot holds an overloaded set.
OverloadedAt(k) ==
  /\ k + 2 <= Len(Chain)
  /\ Stable
  /\ \A j \in 0..k : Succeeded(j)
  /\ Found(k).val.k = "Overloaded"
OverloadedPrefixDiag(k) ==
  Diagnostic_error(SpanPos(1, k),
    <<"Overloaded name", Chain[k + 1], "may not be the prefix of selected name">>)
InvalidPrefixDiag(k) ==
  Diagnostic_error(SpanPos(1, k), <<"Invalid prefix for selected name">>)
\* No prefix entity, nothing about the suffix, the suffix slots cleared.
SuffixUntouched(k) ==
  /\ ret.val = NoneVal
  /\ \A j \in (k + 1)..(Len(Chain) - 1) : refs[ChainSlot(j)] = NoneVal
  /\ \A i \in 1..Len(AllDiags) : AllDiags[i].pos = SpanPos(1, k)

\* C2 as stated: on every path a selected name with an overloaded prefix yields
\* exactly the diagnostic "Overloaded name '<prefix>' may not be the prefix of
\* selected name" at the prefix position.
C2_Original ==
  \A k \in 0..(MaxChain - 1) :
    OverloadedAt(k) => (AllDiags = <<OverloadedPrefixDiag(k)>> /\ SuffixUntouched(k))

\* C2 amended: resolve_name yields exactly that diagnostic; resolve_selected_name
\* (and a type mark resolved through it) yields exactly one diagnostic "Invalid
\* prefix for selected name" at the prefix position instead.  On both paths
\* there is no prefix entity, no diagnostic about the suffix, and the suffix
\* slots are cleared.
C2_OverloadedPrefix ==
  \A k \in 0..(MaxChain - 1) :
    OverloadedAt(k) =>
      /\ SuffixUntouched(k)
      /\ node.path = "resolve_name" =>
           (diagnostics = <<OverloadedPrefixDiag(k)>> /\ ret = Ok(NoneVal))
      /\ node.path = "resolve_selected_name" =>
           (diagnostics = <<>> /\ ret = NotFatal(InvalidPrefixDiag(k)))
      /\ node.path = "analyze_discrete_range" =>
           (diagnostics = <<InvalidPrefixDiag(k)>> /\ ret = Ok(NoneVal))

C2_Witness ==
  /\ node.path = "resolve_name" /\ Len(Chain) = 3 /\ OverloadedAt(1)
  /\ diagnostics = <<OverloadedPrefixDiag(1)>>

\* C3: after a pass every slot of the chain is cleared or holds what this
\* pass's lookup of that designator found (never a binding from before), and
\* a second pass against the same root region and symbol graph returns the
\* same entities, leaves the same slots and reports the same diagnostics.
C3_NoStaleIdempotent ==
  /\ Stable =>
       \A i \in 0..(Len(Chain) - 1) :
         \/ refs[ChainSlot(i)] = NoneVal
         \/ /\ i = 0
            /\ D0Lookup.tag = "Ok"
            /\ refs[ChainSlot(0)] = D0Lookup.val
         \/ /\ i >= 1
            /\ refs[ChainSlot(i - 1)].k = "Single"
            /\ LET l == lookup_selected(SpanPos(1, i - 1),
                                        EntOf(refs[ChainSlot(i - 1)]), Suffix(i))
               IN l.tag = "Ok" /\ refs[ChainSlot(i)] = l.val
  /\ prev.valid =>
       /\ prev.ret = ret
       /\ prev.diagnostics = diagnostics
       /\ \A i \in 0..(Len(Chain) - 1) : prev.refs[ChainSlot(i)] = refs[ChainSlot(i)]

C3_Witness ==
  /\ prev.valid /\ Len(Chain) >= 2
  /\ \E i \in 0..(Len(Chain) - 1) :
       /\ prev.before[ChainSlot(i)] # NoneVal
       /\ prev.before[ChainSlot(i)] # refs[ChainSlot(i)]
  /\ \E i \in 0..(Len(Chain) - 1) : refs[ChainSlot(i)] # NoneVal

\* The entity found for designator k is an OtherAlias, or an object or field
\* whose base type unwraps to one, and is the prefix of designator k+1.
AliasPrefixAt(k) ==
  /\ k + 2 <= Len(Chain)
  /\ Stable
  /\ \A j \in 0..k : Succeeded(j)
  /\ Found(k).val.k = "Single"
  /\ LET e == EntOf(Found(k).val) IN
     \/ actual_kind(e) = "OtherAlias"
     \/ /\ actual_kind(e) \in {"Object", "ElementDeclaration"}
        /\ actual_kind(Unwrap(base(e))) = "OtherAlias"

\* C8 as stated: on every path, a selected name whose prefix is an OtherAlias
\* reports no diagnostic and no error and leaves the suffix unbound.
C8_Original ==
  \A k \in 0..(MaxChain - 1) :
    AliasPrefixAt(k) =>
      (AllDiags = <<>> /\ ret.tag = "Ok" /\ refs[ChainSlot(k + 1)] = NoneVal)

\* C8 amended: resolve_name reports nothing, returns None and leaves the suffix
\* unbound.  resolve_selected_name has no None to return: it leaves the suffix
\* unbound and returns the NotFatal error "Invalid prefix for selected name" at
\* the prefix position, which analyze_discrete_range pushes once for a type mark.
C8_OtherAliasPermissive ==
  \A k \in 0..(MaxChain - 1) :
    AliasPrefixAt(k) =>
      /\ \A j \in (k + 1)..(Len(Chain) - 1) : refs[ChainSlot(j)] = NoneVal
      /\ node.path = "resolve_name" => (diagnostics = <<>> /\ ret = Ok(NoneVal))
      /\ node.path = "resolve_selected_name" =>
           (diagnostics = <<>> /\ ret = NotFatal(InvalidPrefixDiag(k)))
      /\ node.path = "analyze_discrete_range" =>
           (diagnostics = <<InvalidPrefixDiag(k)>> /\ ret = Ok(NoneVal))

C8_Witness ==
  /\ node.path = "resolve_name" /\ Chain = <<"oali", "val">> /\ AliasPrefixAt(0)
  /\ before[ChainSlot(1)] = Single("val")
  /\ ret = Ok(NoneVal)

\* The entity whose member region designator k is looked up in: the package
\* itself, or the record or protected type below the prefix's base type.
MemberHolder(k) ==
  LET e == EntOf(Found(k - 1).val) IN
  IF actual_kind(e) \in {"Object", "ElementDeclaration"} THEN Unwrap(base(e)) ELSE e
\* Designator k is looked up in a member region: of a package prefix, or of the
\* record or protected type of an object or field prefix.
HasMemberRegion(k) ==
  LET e == EntOf(Found(k - 1).val) IN
  IF actual_kind(e) \in {"Object", "ElementDeclaration"}
  THEN actual_kind(Unwrap(base(e))) \in {"RecordType", "ProtectedType"}
  ELSE actual_kind(e) \in {"Package", "PackageInstance", "LocalPackageInstance"}
\* Every designator that is found and is a prefix denotes a single entity.
SinglePrefixes ==
  \A j \in 0..(Len(Chain) - 2) : Succeeded(j) => Found(j).val.k = "Single"
FirstFailure(k) ==
  /\ k < Len(Chain)
  /\ \A j \in 0..(k - 1) : Succeeded(j)
  /\ ~Succeeded(k)

\* C9: resolve_name on d0.d1...dn whose prefix steps yield single entities sets
\* the slot of di, to what the lookup of di found, exactly when the lookups of
\* d0..di all succeeded.  All succeeding: no diagnostic.  The member lookup of
\* dk failing first: exactly one diagnostic "No declaration of '<dk>' within
\* <holder of the member region>" at the position of dk; the library lookup
\* failing first: exactly the library's diagnostic at the position of dk.
C9_BindingStopsAtFirstFailure ==
  (Stable /\ node.path = "resolve_name" /\ SinglePrefixes) =>
    /\ \A i \in 0..(Len(Chain) - 1) :
         IF \A j \in 0..i : Succeeded(j)
         THEN refs[ChainSlot(i)] = Found(i).val
         ELSE refs[ChainSlot(i)] = NoneVal
    /\ (\A i \in 0..(Len(Chain) - 1) : Succeeded(i)) =>
         (diagnostics = <<>> /\ ret = Ok(Found(Len(Chain) - 1).val))
    /\ \A k \in 1..(Len(Chain) - 1) :
         (FirstFailure(k) /\ HasMemberRegion(k)) =>
           diagnostics =
             <<[pos |-> DesPos(1, k),
                msg |-> <<"No declaration of", Chain[k + 1], "within",
                          KindWord[actual_kind(MemberHolder(k))], MemberHolder(k)>>,
                related |-> {}]>>
    /\ \A k \in 1..(Len(Chain) - 1) :
         (FirstFailure(k) /\ Found(k).tag = "NotFatal"
            /\ actual_kind(MemberHolder(k)) = "Library") =>
           (Len(diagnostics) = 1 /\ diagnostics[1].pos = DesPos(1, k))

C9_Witness ==
  /\ Stable /\ node.path = "resolve_name" /\ Chain = <<"rec", "next", "missing">>
  /\ FirstFailure(2)
  /\ refs[ChainSlot(1)] = Single("next")
  /\ Len(diagnostics) = 1

C9_WitnessAll ==
  /\ Stable /\ node.path = "resolve_name" /\ Chain = <<"work", "pkg", "CONST">>
  /\ \A i \in 0..2 : refs[ChainSlot(i)] # NoneVal
  /\ diagnostics = <<>>

\* ------------------------------------------- lookups on the symbol graph
\* The suffixes looked up in a type, and the suffix node of a two-part name.
MemberNames == {"next", "val", "count", "get", "missing"}
SuffixNode(des) == [des |-> des, pos |-> DesPos(1, 1), slot |-> DesPos(1, 1)]

\* A caller looks a suffix up in a prefix type.
LookupTypeSelected(prefix_type, des) ==
  /\ node' = [path |-> "lookup_type_selected", chain |-> <<prefix_type, des>>, stmt |-> NoStmt]
  /\ ret' = lookup_type_selected(SpanPos(1, 0), prefix_type, SuffixNode(des))
  /\ UNCHANGED <<wrapKind, wrapTarget, link, call, refs, diagnostics, before, prev, obs, stack>>

\* A caller looks a suffix up in a prefix entity.
LookupSelected(prefix, des) ==
  /\ node' = [path |-> "lookup_selected", chain |-> <<prefix, des>>, stmt |-> NoStmt]
  /\ ret' = lookup_selected(SpanPos(1, 0), prefix, SuffixNode(des))
  /\ UNCHANGED <<wrapKind, wrapTarget, link, call, refs, diagnostics, before, prev, obs, stack>>

\* The prefix entities a suffix is looked up in: one of every kind.
LookupPrefixes ==
  {"wobj", "rec", "next", "oali", "ali", "pkg", "work", "upkg", "integer",
   "inst", "linst", "rec_t", "prot_t", "shared_v", "CONST", "func#1"}

InitLookup ==
  /\ wrapKind \in [1..MaxWrap -> WrapKinds]
  /\ wrapTarget \in WrapTargets
  /\ link \in BOOLEAN
  /\ call = NoCall
  /\ node = NoNode
  /\ refs = Cleared
  /\ diagnostics = <<>>
  /\ ret = Ok(NoneVal)
  /\ before = Cleared
  /\ prev = NoPrev
  /\ obs = NoObs
  /\ stack = <<>>

NextLookup ==
  \/ \E t \in Wrappers \cup {wrapTarget, "ptr_t", "ali_sub"}, des \in MemberNames :
       LookupTypeSelected(t, des)
  \/ \E e \in LookupPrefixes, des \in MemberNames \cup {"pkg", "CONST", CircularUnit} :
       LookupSelected(e, des)

SpecLookup == InitLookup /\ [][NextLookup]_vars

\* C4: looking a suffix up through any chain of Subtype and AccessType wrappers
\* gives exactly the outcome (entities, None, or error message and position) of
\* looking it up in the type below the wrappers; the same holds for an object
\* whose base type is the outermost wrapper.
C4_IndirectionTransparent ==
  /\ (node.path = "lookup_type_selected" /\ node.chain[1] \in Wrappers) =>
       ret = lookup_type_selected(SpanPos(1, 0), wrapTarget, SuffixNode(node.chain[2]))
  /\ (node.path = "lookup_selected" /\ node.chain[1] = "wobj") =>
       ret = lookup_type_selected(SpanPos(1, 0), wrapTarget, SuffixNode(node.chain[2]))

C4_Witness ==
  /\ node = [path |-> "lookup_type_selected", chain |-> <<WrapNames[1], "next">>,
             stmt |-> NoStmt]
  /\ MaxWrap >= 2
  /\ wrapKind[1] = "Subtype" /\ wrapKind[MaxWrap] = "AccessType"
  /\ wrapTarget = "rec_t"
  /\ ret = Ok(Single("next"))

\* The prefix is one the lookup cannot decide: an OtherAlias, or an object or
\* element whose base type leads, through Subtype, AccessType and linked
\* IncompleteType, to an OtherAlias or to an IncompleteType not linked yet.
Indeterminate(prefix) ==
  \/ actual_kind(prefix) = "OtherAlias"
  \/ /\ actual_kind(prefix) \in {"Object", "ElementDeclaration"}
     /\ actual_kind(Unwrap(base(prefix))) \in {"OtherAlias", "IncompleteType"}

\* C11: lookup_selected returns Ok(None) only for an indeterminate prefix; for
\* every other prefix (a library in particular) it returns entities or an error.
C11_NoneOnlyIndeterminate ==
  node.path = "lookup_selected" =>
    LET prefix == node.chain[1] IN
    /\ ret = Ok(NoneVal) => Indeterminate(prefix)
    /\ ~Indeterminate(prefix) =>
         \/ ret.tag \in {"NotFatal", "Fatal"}
         \/ ret.tag = "Ok" /\ ret.val.k \in {"Single", "Overloaded"}
    /\ actual_kind(prefix) = "Library" => ret # Ok(NoneVal)

C11_Witness ==
  /\ node = [path |-> "lookup_selected", chain |-> <<"wobj", "val">>, stmt |-> NoStmt]
  /\ wrapTarget = "node_t" /\ ~link
  /\ wrapKind[1] = "AccessType"
  /\ ret = Ok(NoneVal)

\* --------------------------------- resolvers racing with the link write
\* Reader r looks a suffix up in a type that leads to the incomplete type.
ReaderLookup(r, prefix_type, des) ==
  /\ obs' = [obs EXCEPT ![r] =
               [seen |-> TRUE, type |-> prefix_type, des |-> des,
                res |-> lookup_type_selected(SpanPos(1, 0), prefix_type, SuffixNode(des))]]
  /\ UNCHANGED <<wrapKind, wrapTarget, link, call, node, refs, diagnostics, ret, before, prev,
                 stack>>

InitLink ==
  /\ wrapKind \in [1..MaxWrap -> WrapKinds]
  /\ wrapTarget = "node_t"
  /\ link = FALSE
  /\ call = NoCall
  /\ node = NoNode
  /\ refs = Cleared
  /\ diagnostics = <<>>
  /\ ret = Ok(NoneVal)
  /\ before = Cleared
  /\ prev = NoPrev
  /\ obs = NoObs
  /\ stack = <<>>

NextLink ==
  \/ \E r \in 1..MaxReaders, t \in {"node_t", "ptr_t", TopType}, des \in {"next", "val", "missing"} :
       ReaderLookup(r, t, des)
  \/ LinkFullType

SpecLink == InitLink /\ [][NextLink]_vars

\* What the lookup gives against the full type directly.
Direct(des) == lookup_type_selected(SpanPos(1, 0), FullType, SuffixNode(des))

\* Every observation is None (without a diagnostic) or the full type's outcome,
\* and it is None whenever the link is still unresolved.
C5_Observations ==
  \A r \in 1..MaxReaders :
    obs[r].seen =>
      /\ obs[r].res \in {Ok(NoneVal), Direct(obs[r].des)}
      /\ ~link => obs[r].res = Ok(NoneVal)

\* The link never goes back; a lookup made with the link resolved gives the full
\* type's outcome; a reader that saw the full type's outcome does not see None
\* on a later lookup.
C5_Step ==
  /\ link => link'
  /\ \A r \in 1..MaxReaders :
       /\ (link /\ obs'[r] # obs[r]) => obs'[r].res = Direct(obs'[r].des)
       /\ (obs[r].seen /\ obs[r].res # Ok(NoneVal)) => obs'[r].res # Ok(NoneVal)

\* C5: the weak link goes from unresolved to resolved at most once and never
\* back; a lookup against the incomplete type returns None without a diagnostic
\* while the link is unresolved and the full type's own outcome once it is
\* resolved; in every interleaving each lookup sees one of the two, and a reader
\* that has seen the resolved outcome never later sees None.
C5_IncompleteMonotonic == []C5_Observations /\ [][C5_Step]_vars

C5_Witness ==
  /\ link
  /\ obs[1].seen /\ obs[1].type = "ptr_t" /\ obs[1].res = Ok(NoneVal)
  /\ obs[2].seen /\ obs[2].type = "ptr_t" /\ obs[2].des = obs[1].des
  /\ obs[2].res = Ok(Single("next"))

\* ------------------------------------------- analysis of statements
Outcomes == {"ok", "diag", "fatal"}
ExprKinds == {"ok", "bad", "fatal"}
ChoiceKinds == {"ok", "fatal", "range"}
Branches(conds) ==
  {bs \in [1..MaxBranches -> [item : ExprKinds, cond : conds]] : TRUE}
ExprForms ==
  {"Binary", "Unary", "SelectedAll", "Indexed", "Slice", "SliceRange", "Attribute",
   "FunctionCall", "External", "Qualified", "NewQualified", "NewSubtype", "Aggregate"}

Faults(d) ==
  Cardinality({f \in {"target", "sel"} : d[f] # "ok"})
  + (IF d.els \in {"ok", "absent", "unaffected"} THEN 0 ELSE 1)
  + Cardinality({b \in 1..Len(d.branches) : d.branches[b].item # "ok"})
  + Cardinality({b \in 1..Len(d.branches) : d.branches[b].cond # "ok"})
SimpleStmts ==
  {[form |-> "Simple", target |-> t, sel |-> k, branches |-> <<>>, els |-> "absent"] :
     t \in Outcomes, k \in ExprKinds}
ConditionalStmts(path) ==
  {d \in {[form |-> "Conditional", target |-> t, sel |-> "ok", branches |-> bs, els |-> e] :
            t \in Outcomes, bs \in Branches(ExprKinds),
            e \in ExprKinds \cup {"absent"} \cup
                  (IF path = "analyze_waveform_assignment" THEN {"unaffected"} ELSE {})} :
     Faults(d) <= MaxFaults}
SelectedStmts ==
  {d \in {[form |-> "Selected", target |-> t, sel |-> k, branches |-> bs, els |-> "absent"] :
            t \in Outcomes, k \in ExprKinds, bs \in Branches(ChoiceKinds)} :
     Faults(d) <= MaxFaults}
Exprs ==
  {[form |-> f, target |-> o, sel |-> a, branches |-> <<>>, els |-> b] :
     f \in ExprForms, o \in Outcomes, a \in ExprKinds, b \in ExprKinds}

\* The parser hands over an assignment with an expression or a waveform payload.
ParseAssignment(path) ==
  /\ node.path = "none"
  /\ \E d \in SimpleStmts \cup ConditionalStmts(path) \cup SelectedStmts :
       node' = [path |-> path, chain |-> <<>>, stmt |-> d]
  /\ UNCHANGED <<wrapKind, wrapTarget, link, call, refs, diagnostics, ret, before, prev, obs, stack>>

\* ... an expression
ParseExpression ==
  /\ node.path = "none"
  /\ \E d \in Exprs : node' = [path |-> "analyze_expression", chain |-> <<>>, stmt |-> d]
  /\ UNCHANGED <<wrapKind, wrapTarget, link, call, refs, diagnostics, ret, before, prev, obs, stack>>

\* ... a name that is not a plain chain, alone or with a suffix selected from it
NameForms ==
  {"SelectedAll", "Indexed", "Slice", "SliceRange", "Attribute", "FunctionCall", "External"}
PrefixKinds == {"ok", "bad", "fatal", "range", "fine"}
CompoundNames ==
  {[form |-> f, target |-> o, sel |-> a, branches |-> <<>>, els |-> b] :
     f \in NameForms, o \in Outcomes, a \in PrefixKinds, b \in ExprKinds}
ParseCompoundName ==
  /\ node.path = "none"
  /\ \E d \in CompoundNames, chain \in {<<>>, <<"val">>, <<"missing">>} :
       node' = [path |-> "resolve_name", chain |-> chain, stmt |-> d]
  /\ UNCHANGED <<wrapKind, wrapTarget, link, call, refs, diagnostics, ret, before, prev, obs, stack>>

\* The unit is analyzed once, or once before and once after an edit of its
\* declarations.
AnalyzeUnit(region) ==
  /\ \/ call = NoCall
     \/ call.region = "root2" /\ region = "root1"
  /\ Analyze(region)

InitAnalyze ==
  /\ wrapKind = [i \in 1..MaxWrap |-> "Subtype"]
  /\ wrapTarget = "rec_t"
  /\ link = FALSE
  /\ call = NoCall
  /\ node = NoNode
  /\ refs = Cleared
  /\ diagnostics = <<>>
  /\ ret = Ok(NoneVal)
  /\ before = Cleared
  /\ prev = NoPrev
  /\ obs = NoObs
  /\ stack = <<>>

NextAnalyze ==
  \/ ParseAssignment("analyze_expr_assignment")
  \/ ParseAssignment("analyze_waveform_assignment")
  \/ ParseExpression
  \/ ParseCompoundName
  \/ \E region \in RootRegions : AnalyzeUnit(region)

SpecAnalyze == InitAnalyze /\ [][NextAnalyze]_vars

\* ------------------------------------- properties of statement analysis
\* The parts of the analyzed node in the order of the traversal: what a part
\* is (role), the name it owns (n), how it was written (kind) and where it
\* sits in the statement (f, b).
Part(role, n, kind, f, b) == [role |-> role, n |-> n, kind |-> kind, f |-> f, b |-> b]
TargetPart(d) == Part("target", 1, d.target, "target", 0)
ValueRole(path) == IF path = "analyze_waveform_assignment" THEN "waveform" ELSE "expr"
BranchParts(d, path, condRole) ==
  [i \in 1..(2 * Len(d.branches)) |->
     LET b == (i + 1) \div 2 IN
     IF i % 2 = 1
     THEN Part(ValueRole(path), ItemId(b), d.branches[b].item, "item", b)
     ELSE Part(condRole, CondId(b), d.branches[b].cond, "cond", b)]
StmtParts(d, path) ==
  CASE d.form = "Simple" -> <<TargetPart(d), Part(ValueRole(path), 2, d.sel, "sel", 0)>>
    [] d.form = "Conditional" ->
         <<TargetPart(d)>> \o BranchParts(d, path, "expr") \o
         (IF d.els = "absent" THEN <<>> ELSE <<Part(ValueRole(path), 2, d.els, "els", 0)>>)
    [] d.form = "Selected" ->
         <<Part("expr", 2, d.sel, "sel", 0), TargetPart(d)>> \o BranchParts(d, path, "choices")
AttrParts(d) ==
  <<Part("name", 1, d.sel, "sel", 0), Part("signature", 3, d.target, "target", 0),
    Part("expr", 2, d.els, "els", 0)>>
ExprParts(d) ==
  CASE d.form = "Binary" -> <<Part("expr", 1, d.sel, "sel", 0), Part("expr", 2, d.els, "els", 0)>>
    [] d.form = "Unary" -> <<Part("expr", 2, d.els, "els", 0)>>
    [] d.form = "SelectedAll" -> <<Part("prefix", 1, d.sel, "sel", 0)>>
    [] d.form = "Indexed" -> <<Part("name", 1, d.sel, "sel", 0), Part("expr", 2, d.els, "els", 0)>>
    [] d.form = "Slice" ->
         <<Part("name", 1, d.sel, "sel", 0), Part("typemark", 2, d.els, "els", 0)>>
    [] d.form = "SliceRange" -> <<Part("name", 4, "ok", "fixed", 0)>> \o AttrParts(d)
    [] d.form = "Attribute" -> AttrParts(d)
    [] d.form = "FunctionCall" ->
         <<Part("name", 1, d.sel, "sel", 0), Part("expr", 2, d.els, "els", 0)>>
    [] d.form = "External" -> <<Part("subtype", 3, d.target, "target", 0)>>
    [] d.form \in {"Qualified", "NewQualified"} ->
         <<Part("name", 1, d.sel, "sel", 0), Part("expr", 2, d.els, "els", 0)>>
    [] d.form = "NewSubtype" -> <<Part("subtype", 3, d.target, "target", 0)>>
    [] d.form = "Aggregate" ->
         <<Part("typemark", 1, d.sel, "sel", 0), Part("expr", 2, d.els, "els", 0)>>
IsAssignment == node.path \in {"analyze_expr_assignment", "analyze_waveform_assignment"}
Analyzed == Called /\ node.path \in {"analyze_expr_assignment", "analyze_waveform_assignment",
                                     "analyze_expression"}
Parts == IF IsAssignment THEN StmtParts(node.stmt, node.path) ELSE ExprParts(node.stmt)

\* The part analyzed on its own by the step that owns it, an error the step
\* returns being handed to add_to as its caller does.
Absorb(r) == IF r.res.tag = "NotFatal" THEN add_to(r.st, r.res) ELSE r
PartRun(p, region, st) ==
  CASE p.role = "target" -> analyze_target(st, region, [pos |-> SpanPos(p.n, 0), outcome |-> p.kind])
    [] p.role = "signature" ->
         Absorb(resolve_signature(st, region, [pos |-> SpanPos(p.n, 0), outcome |-> p.kind]))
    [] p.role = "subtype" ->
         analyze_subtype_indication(st, region, [pos |-> SpanPos(p.n, 0), outcome |-> p.kind])
    [] p.role = "expr" -> analyze_expression(st, region, PartExpr(p.kind, p.n))
    [] p.role = "name" ->
         resolve_name(st, region, PartPrefix(p.kind, p.n).pos, PartPrefix(p.kind, p.n).item)
    [] p.role = "prefix" ->
         resolve_prefix(st, region, PartPrefix(p.kind, p.n).pos, PartPrefix(p.kind, p.n).item)
    [] p.role = "typemark" ->
         Absorb(resolve_type_mark(st, region, TypeMarkRange(p.kind, p.n, None).type_mark))
    [] p.role = "waveform" -> analyze_waveform(st, region, PartWaveform(p.kind, p.n))
    [] p.role = "choices" -> analyze_choices(st, region, PartChoices(p.kind, p.n))
\* Every part analyzed on its own from the slots the call started with.
Alone ==
  [i \in 1..Len(Parts) |-> PartRun(Parts[i], call.region, [refs |-> before, diags |-> <<>>])]
\* The chain of the name a part is written with.
PartName(p) ==
  CASE p.role = "typemark" -> TypeMarkRange(p.kind, p.n, None).type_mark
    [] p.role = "choices" /\ p.kind \in {"range", "okrange"} ->
         TypeMarkRange(p.kind, p.n, None).type_mark
    [] OTHER -> MkSelectedName(p.n, PartChain(p.kind))
\* The fatal error a collaborator returns when part p is analyzed, "" if none
\* does: the analyzer of a target, signature or subtype indication on its
\* node, and lookup_in_library on the unit selected from a library.
CollaboratorFatal(p, region) ==
  CASE p.role = "target" ->
         analyze_target([refs |-> before, diags |-> <<>>], region,
           [pos |-> NoPos, outcome |-> p.kind]).res.err
    [] p.role = "signature" ->
         resolve_signature([refs |-> before, diags |-> <<>>], region,
           [pos |-> NoPos, outcome |-> p.kind]).res.err
    [] p.role = "subtype" ->
         analyze_subtype_indication([refs |-> before, diags |-> <<>>], region,
           [pos |-> NoPos, outcome |-> p.kind]).res.err
    [] p.kind = "unaffected" -> ""
    [] OTHER ->
         LET library == lookup_within(region, NoPos, PartName(p).item.prefix.item.des)
             unit == PartName(p).item.suffix
         IN IF library.tag = "Ok" /\ library.val.k = "Single"
               /\ actual_kind(library.val.des) = "Library"
            THEN lookup_in_library(library.val.des, unit.pos, unit.des).err
            ELSE ""
FatalErr == [i \in 1..Len(Parts) |-> CollaboratorFatal(Parts[i], call.region)]
FatalParts(fe) == {i \in 1..Len(fe) : fe[i] # ""}
FirstFatal(fe) == CHOOSE i \in FatalParts(fe) : \A j \in FatalParts(fe) : i <= j
\* The parts the traversal reaches: all of them, or those up to the first fatal one.
Reached(fe) == IF FatalParts(fe) # {} THEN FirstFatal(fe) ELSE Len(fe)
RECURSIVE DiagsUpTo(_, _)
DiagsUpTo(al, i) == IF i = 0 THEN <<>> ELSE DiagsUpTo(al, i - 1) \o al[i].st.diags
\* The names a part owns: its own and the delay of its waveform element.
NamesOf(p) == {p.n, MaxParts + p.n}
SlotsOf(names) == {s \in Slots : s[1] \in names}
At(ds, names) == SelectSeq(ds, LAMBDA dg : dg.pos[1] \in names)
NotAt(ds, names) == SelectSeq(ds, LAMBDA dg : dg.pos[1] \notin names)

\* The statement with the name of part p written so that it resolves.
Resolving(p) ==
  CASE p.role \in {"target", "signature", "subtype", "typemark"} -> "ok"
    [] p.role = "choices" /\ p.kind = "range" -> "okrange"
    [] OTHER -> "fine"
ReplaceKind(d, p, k) ==
  CASE p.f = "target" -> [d EXCEPT !.target = k]
    [] p.f = "sel" -> [d EXCEPT !.sel = k]
    [] p.f = "els" -> [d EXCEPT !.els = k]
    [] p.f = "item" -> [d EXCEPT !.branches[p.b].item = k]
    [] p.f = "cond" -> [d EXCEPT !.branches[p.b].cond = k]
Twin(p) ==
  Run([node EXCEPT !.stmt = ReplaceKind(node.stmt, p, Resolving(p))],
      call.region, [refs |-> before, diags |-> <<>>])
\* Part p, which alone gives a, fails at its name with an error that is not fatal.
Fails(p, a) ==
  /\ p.f # "fixed"
  /\ a.res.tag = "Ok"
  /\ At(a.st.diags, {p.n}) # <<>>
\* What the call left agrees with what it leaves on the twin statement,
\* outside the name n.
SameBut(n, twin) ==
  /\ ret = twin.res
  /\ \A s \in Slots \ SlotsOf({n}) : refs[s] = twin.st.refs[s]
  /\ NotAt(diagnostics, {n}) = NotAt(twin.st.diags, {n})

\* C6: a part of an expression or assignment that fails with a NotFatal
\* error has that error pushed exactly once, the call returns Ok unless some
\* part is fatal, and everything else (the result, every slot and every
\* diagnostic that is not of the failing name) is what the same call gives on
\* the statement in which that name resolves.
C6_NotFatalAbsorbed ==
  Analyzed =>
    LET ps == Parts
        al == Alone
        fe == FatalErr
    IN
    \A i \in 1..Len(ps) :
      Fails(ps[i], al[i]) =>
        LET twin == Twin(ps[i]) IN
        /\ i <= Reached(fe) => /\ Len(At(diagnostics, {ps[i].n})) = 1
                               /\ At(twin.st.diags, {ps[i].n}) = <<>>
        /\ FatalParts(fe) = {} => ret = Ok(NoneVal)
        /\ SameBut(ps[i].n, twin)

\* A failing part is followed by siblings that bind a slot and push a diagnostic.
C6_Witness ==
  /\ Analyzed /\ IsAssignment /\ FatalParts(FatalErr) = {} /\ ret = Ok(NoneVal)
  /\ \E i, j, k \in 1..Len(Parts) :
       /\ i < j /\ i < k
       /\ Fails(Parts[i], Alone[i])
       /\ At(diagnostics, {Parts[j].n}) # <<>>
       /\ refs[DesPos(Parts[k].n, 1)] # NoneVal

\* C7: when a collaborator is fatal on a part the call returns that fatal
\* error, no part after it in traversal order has a slot written or a
\* diagnostic pushed, and the sink holds no diagnostic for the fatal part.
C7_FatalPropagates ==
  Analyzed =>
    LET ps == Parts
        fe == FatalErr
    IN
    FatalParts(fe) # {} =>
      LET f == FirstFatal(fe) IN
      /\ ret = Fatal(fe[f])
      /\ At(diagnostics, NamesOf(ps[f])) = <<>>
      /\ \A i \in (f + 1)..Len(ps) :
           /\ At(diagnostics, NamesOf(ps[i])) = <<>>
           /\ \A s \in SlotsOf(NamesOf(ps[i])) : refs[s] = before[s]

\* A fatal part after a part that pushed a diagnostic and before a part whose
\* slot still holds what an earlier pass bound.
C7_Witness ==
  /\ Analyzed /\ FatalParts(FatalErr) # {} /\ ret.tag = "Fatal"
  /\ diagnostics # <<>>
  /\ \E i \in (FirstFatal(FatalErr) + 1)..Len(Parts) :
       /\ before[DesPos(Parts[i].n, 0)] # NoneVal
       /\ refs[DesPos(Parts[i].n, 0)] = before[DesPos(Parts[i].n, 0)]

\* C10: both assignment analyzers push the diagnostics of the parts in the
\* order target, value (Simple); target, value and condition of each branch,
\* else-value (Conditional); selector, target, value and choices of each
\* alternative (Selected), up to the first fatal part.
C10_TraversalOrder ==
  (Analyzed /\ IsAssignment) =>
    LET al == Alone
        fe == FatalErr
    IN
    /\ diagnostics = DiagsUpTo(al, Reached(fe))
    /\ ret = IF FatalParts(fe) # {} THEN Fatal(fe[FirstFatal(fe)]) ELSE Ok(NoneVal)

\* A selected waveform assignment whose selector, target and alternatives all
\* push a diagnostic.
C10_Witness ==
  /\ Analyzed /\ node.path = "analyze_waveform_assignment" /\ node.stmt.form = "Selected"
  /\ Len(diagnostics) >= 4
  /\ diagnostics[1].pos[1] = 2
  /\ diagnostics[2].pos[1] = 1
  /\ diagnostics[3].pos[1] = ItemId(1)

\* ------------------------------------------ names that never bind
IsCompound == Called /\ node.path = "resolve_name" /\ node.stmt # NoStmt
\* C12: resolve_name on a SelectedAll, Indexed, Slice, Attribute, FunctionCall
\* or External name returns None (or the fatal error of a collaborator),
\* whatever the prefix resolves to, after resolving the prefix and analyzing
\* every nested part as it is analyzed on its own; a suffix selected from
\* such a name is never looked up: its slot is cleared and no diagnostic is
\* anchored at it.
C12_CompoundNeverBinds ==
  IsCompound =>
    LET ps == Parts
        al == Alone
        fe == FatalErr
    IN
    /\ ret = IF FatalParts(fe) # {} THEN Fatal(fe[FirstFatal(fe)]) ELSE Ok(NoneVal)
    /\ diagnostics = DiagsUpTo(al, Reached(fe))
    /\ \A i \in 1..Reached(fe) :
         \A s \in SlotsOf({ps[i].n}) \ {OuterSuffix("").slot} : refs[s] = al[i].st.refs[s]
    /\ node.chain # <<>> =>
         /\ refs[OuterSuffix("").slot] = NoneVal
         /\ \A i \in 1..Len(diagnostics) : diagnostics[i].pos # OuterSuffix("").pos

\* rec.val(missing.x, ..).val analyzed: the prefix is bound, the index
\* expression reported, the suffix left alone.
C12_Witness ==
  /\ IsCompound /\ call.region = "root1"
  /\ node.stmt.form = "Indexed" /\ node.stmt.sel = "ok" /\ node.stmt.els = "bad"
  /\ node.chain = <<"val">>
  /\ refs[DesPos(1, 1)] = Single("val")
  /\ Len(diagnostics) = 1
  /\ ret = Ok(NoneVal)

\* ------------------------------- the recursion of lookup_type_selected
\* The type entities of the symbol graph.
TypeEntities == Wrappers \cup WrapTargets \cup {"ptr_t", "ali_sub", "loop_t", "loop_full"}
\* Calls that fit on the thread's stack.
MaxDepth == MaxWrap + 4

\* The prefix type the call on prefix_type calls itself with, if it does:
\* the linked full type of an IncompleteType, the base of a Subtype or
\* AccessType.
recursive_call(prefix_type) ==
  LET kind == actual_kind(prefix_type) IN
  CASE kind = "IncompleteType" -> load_upgrade(prefix_type)
    [] kind \in {"Subtype", "AccessType"} -> [some |-> TRUE, ent |-> base(prefix_type)]
    [] OTHER -> [some |-> FALSE, ent |-> ""]

\* A caller looks a suffix up in a prefix type: the first call is entered.
CallLookupTypeSelected(prefix_type, des) ==
  /\ stack = <<>>
  /\ stack' = <<prefix_type>>
  /\ node' = [path |-> "lookup_type_selected", chain |-> <<prefix_type, des>>, stmt |-> NoStmt]
  /\ UNCHANGED <<wrapKind, wrapTarget, link, call, refs, diagnostics, ret, before, prev, obs>>

\* The innermost call matches IncompleteType (linked), Subtype or AccessType
\* and calls itself.
Descend ==
  /\ stack # <<>>
  /\ Len(stack) < MaxDepth
  /\ recursive_call(stack[Len(stack)]).some
  /\ stack' = Append(stack, recursive_call(stack[Len(stack)]).ent)
  /\ UNCHANGED <<wrapKind, wrapTarget, link, call, node, refs, diagnostics, ret, before, prev,
                 obs>>

\* The innermost call matches any other arm and returns; every caller
\* returns what its callee returned.
Return ==
  /\ stack # <<>>
  /\ ~recursive_call(stack[Len(stack)]).some
  /\ ret' = lookup_type_selected(SpanPos(1, 0), stack[Len(stack)], SuffixNode(node.chain[2]))
  /\ stack' = <<>>
  /\ UNCHANGED <<wrapKind, wrapTarget, link, call, node, refs, diagnostics, before, prev, obs>>

InitDescent ==
  /\ wrapKind \in [1..MaxWrap -> WrapKinds]
  /\ wrapTarget \in WrapTargets \cup {"loop_t"}
  /\ link \in BOOLEAN
  /\ call = NoCall
  /\ node = NoNode
  /\ refs = Cleared
  /\ diagnostics = <<>>
  /\ ret = Ok(NoneVal)
  /\ before = Cleared
  /\ prev = NoPrev
  /\ obs = NoObs
  /\ stack = <<>>

NextDescent ==
  \/ \E t \in TypeEntities, des \in MemberNames : CallLookupTypeSelected(t, des)
  \/ Descend
  \/ Return

SpecDescent == InitDescent /\ [][NextDescent]_vars

\* C13: lookup_type_selected terminates on every symbol graph, the type
\* loop_t of `type loop_t; type loop_t is access loop_t;` included: the graph
\* does not change during the call, so no call is made on a prefix type that
\* a call still active was made on.
C13_Terminates ==
  \A i, j \in 1..Len(stack) : i < j => stack[i] # stack[j]
====
